---- MODULE Spec2Model ----
(***************************************************************************)
(* The mastery-tracking core of the kotoba API: the word_stats table, the  *)
(* scoring function of db.ts, and the review, bulk-review, word and        *)
(* difficult-word routes registered by registerApiRoutes.                  *)
(*                                                                         *)
(* The API is one Node process over a synchronous better-sqlite3           *)
(* connection.  A route handler is a callback with a position (pc) and     *)
(* local variables; the event loop dispatches the next request only when   *)
(* no handler is on the call stack (EventLoopIdle).                        *)
(***************************************************************************)
EXTENDS Integers, Sequences, FiniteSets

\* ------------------------------------------------------------- bounds
MaxWords == 2
MaxReviews == 3
MaxBulk == 2
MaxHandlers == 2
MaxKanji == 2
MaxRuns == 2
MaxSubmissions == 2
MaxUserActions == 5

\* ---------------------------------------------------------- constants
\* Number(req.query.scoreThreshold ?? -5)
DefaultScoreThreshold == -5
\* Number(req.query.minAttempts ?? 5)
DefaultMinAttempts == 5
\* Number(req.query.failRateThreshold ?? 0.4), as the fraction 2/5
DefaultFailRateThreshold == <<2, 5>>

Users == {1, 2}
WordIds == 1..MaxWords
Handlers == 1..MaxHandlers
ReviewResult == {"success", "partial", "fail"}

\* A nullable column or an optional value: <<>> is NULL / undefined, <<v>> is v.
NULL == <<>>
Some(v) == <<v>>

VARIABLES
  words,       \* table words: set of [id, user_id]
  nextWordId,  \* AUTOINCREMENT sequence of words.id
  word_stats,  \* table word_stats: set of WordStatsRow
  clock,       \* the last value new Date() returned
  handlers,    \* per handler context: position and locals of a route callback
  response,    \* the response to the last request dispatched (NoResponse until sent)
  reviewLog,   \* history: review events answered as applied, per word and outcome
  train,       \* web, TrainPage (one review per word): the component's state
  kanji,       \* kanji SVG download: the kanji of the words, the files, the run
  bulkBody,    \* the body.reviews of the bulk requests a client sends
  series,      \* web, TrainPage (series with recap): the component's state
  userActions, \* the number of things the user of the series page has done
  auth         \* POST /api/auth/register: the users table, the requests in flight

\* The state of the API process, and what each part of the system leaves alone.
apiVars == <<words, nextWordId, word_stats, clock, handlers, response, reviewLog>>
notApi == <<train, kanji, bulkBody, series, userActions, auth>>
notTrain == <<apiVars, kanji, bulkBody, series, userActions, auth>>
notKanji == <<apiVars, train, bulkBody, series, userActions, auth>>
notSeries == <<apiVars, train, kanji, bulkBody, auth>>
notAuth == <<nextWordId, word_stats, clock, handlers, response, reviewLog,
             train, kanji, bulkBody, series, userActions>>

vars == <<apiVars, train, kanji, bulkBody, series, userActions, auth>>

\* ------------------------------------------------------- db.ts: schema
\* CREATE TABLE word_stats: every counter and score DEFAULT 0, last_reviewed_at NULL.
DefaultStatsRow(wordId) ==
  [word_id |-> wordId, success_count |-> 0, partial_count |-> 0,
   fail_count |-> 0, score |-> 0, last_reviewed_at |-> NULL]

\* INSERT OR REPLACE INTO word_stats (word_id) VALUES (?): a conflicting row is
\* replaced by the defaults.
InsertOrReplaceStats(table, wordId) ==
  {row \in table : row.word_id # wordId} \cup {DefaultStatsRow(wordId)}

\* A plain INSERT into a table without the PRIMARY KEY.
InsertStatsUnkeyed(table, wordId) == table \cup {DefaultStatsRow(wordId)}

\* INSERT OR IGNORE INTO word_stats (word_id) VALUES (?): word_id is the PRIMARY KEY,
\* a conflicting insert is ignored.
InsertOrIgnoreStats(table, wordId) ==
  IF \E row \in table : row.word_id = wordId
    THEN table
    ELSE table \cup {DefaultStatsRow(wordId)}

\* SELECT ... FROM word_stats WHERE word_id = ? with .get(): the first row or undefined.
SelectStats(table, wordId) ==
  IF \E row \in table : row.word_id = wordId
    THEN Some(CHOOSE row \in table : row.word_id = wordId)
    ELSE NULL

\* An UPDATE whose SET list leaves the score column out.
UpdateStatsWithoutScore(table, updatedStats) ==
  {IF row.word_id = updatedStats.word_id
     THEN [updatedStats EXCEPT !.score = row.score]
     ELSE row : row \in table}

\* UPDATE word_stats SET success_count = ?, ... WHERE word_id = ?
UpdateStats(table, updatedStats) ==
  {IF row.word_id = updatedStats.word_id THEN updatedStats ELSE row : row \in table}

\* A foreign key that is not enforced: the rows of a deleted word stay.
NoCascade(table, wordId) == table

\* FOREIGN KEY(word_id) REFERENCES words(id) ON DELETE CASCADE
CascadeDelete(table, wordId) == {row \in table : row.word_id # wordId}

\* ----------------------------------------------- db.ts: scoring engine
\* A scoring that takes from a fail what it gives for a partial.
computeScoreDeltaSymmetric(reviewResult) ==
  IF reviewResult = "success" THEN 2
  ELSE IF reviewResult = "partial" THEN 1
  ELSE -1

computeScoreDelta(reviewResult) ==
  IF reviewResult = "success" THEN 2
  ELSE IF reviewResult = "partial" THEN 1
  ELSE -2

\* An update that counts a partial as a success too.
applyReviewCountingPartialTwice(existingStats, reviewResult, nowIso) ==
  [existingStats EXCEPT
     !.success_count = @ + (IF reviewResult \in {"success", "partial"} THEN 1 ELSE 0),
     !.partial_count = @ + (IF reviewResult = "partial" THEN 1 ELSE 0),
     !.fail_count = @ + (IF reviewResult = "fail" THEN 1 ELSE 0),
     !.score = @ + computeScoreDelta(reviewResult),
     !.last_reviewed_at = Some(nowIso)]

\* An update that keeps a streak: a success starts the fail counter over.
applyReviewResettingFails(existingStats, reviewResult, nowIso) ==
  [existingStats EXCEPT
     !.success_count = @ + (IF reviewResult = "success" THEN 1 ELSE 0),
     !.partial_count = @ + (IF reviewResult = "partial" THEN 1 ELSE 0),
     !.fail_count = IF reviewResult = "success" THEN 0
                    ELSE @ + (IF reviewResult = "fail" THEN 1 ELSE 0),
     !.score = @ + computeScoreDelta(reviewResult),
     !.last_reviewed_at = Some(nowIso)]

\* An update that stamps only the first review of a record.
applyReviewKeepingFirstTimestamp(existingStats, reviewResult, nowIso) ==
  [existingStats EXCEPT
     !.success_count = @ + (IF reviewResult = "success" THEN 1 ELSE 0),
     !.partial_count = @ + (IF reviewResult = "partial" THEN 1 ELSE 0),
     !.fail_count = @ + (IF reviewResult = "fail" THEN 1 ELSE 0),
     !.score = @ + computeScoreDelta(reviewResult),
     !.last_reviewed_at = IF @ = NULL THEN Some(nowIso) ELSE @]

\* nowIso is the value of new Date().toISOString() read inside the function.
applyReviewToStats(existingStats, reviewResult, nowIso) ==
  [existingStats EXCEPT
     !.success_count = @ + (IF reviewResult = "success" THEN 1 ELSE 0),
     !.partial_count = @ + (IF reviewResult = "partial" THEN 1 ELSE 0),
     !.fail_count = @ + (IF reviewResult = "fail" THEN 1 ELSE 0),
     !.score = @ + computeScoreDelta(reviewResult),
     !.last_reviewed_at = Some(nowIso)]

\* No download of kanji files is under way or has been run.
NoKanji == [runs |-> 0]

\* The kanji of the words and the files of the kanji directory, before any run.
KanjiDirectory(db, files) ==
  [db |-> db, files |-> files, run |-> <<>>, last |-> <<>>, runs |-> 0]

\* A registration handler that is not running.
NotRegistering == [pc |-> "idle", username |-> "", isFirstUser |-> FALSE]

\* No request to the registration route is made: the users are those of Users.
NoRegistration == [nextUserId |-> 0]

\* The users table of a new database, no registration in flight.  answer is the
\* last response of the route, with history: whether the username was a row of
\* users when it was sent, and whether the request inserted a row.
EmptyUsersTable ==
  [users |-> {}, nextUserId |-> 1, registering |-> [h \in Handlers |-> NotRegistering],
   answer |-> <<>>]

\* The series page not mounted.
NoSeriesPage == [mounted |-> FALSE]

\* TrainPage not mounted.
NoTrainPage == [mounted |-> FALSE]

\* ------------------------------------------------------ handler contexts
\* A response: status and body (appliedCount, stats, params, words).  The other
\* fields repeat the request it answers: the session's user, the word of a single
\* review, the length of a bulk list and how many of its pairs name a word that is
\* not the user's.
NoResponse ==
  [op |-> "none", userId |-> 0, wordId |-> 0, reviews |-> 0, foreign |-> 0,
   status |-> 0, appliedCount |-> 0, importedWordsCount |-> 0,
   stats |-> NULL, params |-> NULL, words |-> <<>>]

Respond(op, userId, wordId, status) ==
  [NoResponse EXCEPT !.op = op, !.userId = userId, !.wordId = wordId, !.status = status]

\* History of one word: the review events answered as applied, per outcome.
NoLog == [success |-> 0, partial |-> 0, fail |-> 0]

\* The locals of a route callback.  log and foreign are history of a bulk batch:
\* the events of its pairs on the acting user's words and the number of its other
\* pairs.
Idle ==
  [pc |-> "idle", userId |-> 0, wordId |-> 0, result |-> "success",
   existingStats |-> NULL, i |-> 0, appliedCount |-> 0, snapshot |-> {}, nowIso |-> 0,
   log |-> <<>>, foreign |-> 0]

\* Handlers that yield between their statements (an asynchronous driver).
EventLoopInterleaving == TRUE

\* The handlers of the routes are synchronous (no await, better-sqlite3 blocks): the
\* event loop starts a handler only when none is running.
EventLoopIdle == \A h \in Handlers : handlers[h].pc = "idle"

\* The context a newly dispatched request gets: the lowest free one.  A request is
\* dispatched once the previous exchange has ended (its response has left).
FreeHandler(h) ==
  /\ response = NoResponse
  /\ handlers[h].pc = "idle"
  /\ \A g \in Handlers : g < h => handlers[g].pc # "idle"

Finish(h) == handlers' = [handlers EXCEPT ![h] = Idle]

\* SELECT id FROM words WHERE id = ? (no user_id condition)
WordExists(wordId, userId) == \E w \in words : w.id = wordId

\* SELECT id FROM words WHERE id = ? AND user_id = ?
WordBelongsToUser(wordId, userId) ==
  \E w \in words : w.id = wordId /\ w.user_id = userId

\* ------------------------------------------------------------------ Init
\* What the words table of an existing data file may hold: nothing, or one word
\* (of the first user: the model treats the users alike).
LegacyWords == {{}, {[id |-> 1, user_id |-> 1]}}

\* openDatabase() on the data file: ensureSchema creates what is missing and keeps
\* the rows an earlier deployment left, here words that have no word_stats row.
ApiInit ==
  /\ \E legacy \in LegacyWords :
       /\ words = legacy
       /\ nextWordId = Cardinality(legacy) + 1
  /\ word_stats = {}
  /\ clock = 0
  /\ handlers = [h \in Handlers |-> Idle]
  /\ response = NoResponse
  /\ reviewLog = [w \in WordIds |-> NoLog]

\* The API process started, no page of the web application open, no download run.
Init ==
  /\ ApiInit
  /\ train = NoTrainPage
  /\ kanji = NoKanji
  /\ bulkBody = <<>>
  /\ series = NoSeriesPage
  /\ userActions = 0
  /\ auth = NoRegistration

\* ------------------------------------------------------ POST /api/words
\* The route without its INSERT OR IGNORE INTO word_stats.
PostWordsWithoutStats(userId) ==
  /\ EventLoopIdle
  /\ response = NoResponse
  /\ nextWordId <= MaxWords
  /\ words' = words \cup {[id |-> nextWordId, user_id |-> userId]}
  /\ nextWordId' = nextWordId + 1
  /\ response' = Respond("words", userId, nextWordId, 201)
  /\ UNCHANGED <<word_stats, clock, handlers, reviewLog>>
  /\ UNCHANGED notApi

PostWords(userId) ==
  /\ EventLoopIdle
  /\ response = NoResponse
  /\ nextWordId <= MaxWords
  /\ words' = words \cup {[id |-> nextWordId, user_id |-> userId]}
  /\ nextWordId' = nextWordId + 1
  /\ word_stats' = InsertOrIgnoreStats(word_stats, nextWordId)
  /\ response' = Respond("words", userId, nextWordId, 201)
  /\ UNCHANGED <<clock, handlers, reviewLog>>
  /\ UNCHANGED notApi

\* ----------------------------------------------------- POST /api/import
\* insertWordStatsStatement.run(insertedWordId) for each of the ids first..last.
RECURSIVE InsertStatsFor(_, _, _)
InsertStatsFor(table, first, last) ==
  IF first > last THEN table
  ELSE InsertStatsFor(InsertOrIgnoreStats(table, first), first + 1, last)

\* A body with `count` words: one transaction inserts each word and its stats row.
PostImport(userId, count) ==
  /\ EventLoopIdle
  /\ response = NoResponse
  /\ nextWordId + count - 1 <= MaxWords
  /\ words' = words \cup
       {[id |-> id, user_id |-> userId] : id \in nextWordId..(nextWordId + count - 1)}
  /\ nextWordId' = nextWordId + count
  /\ word_stats' = InsertStatsFor(word_stats, nextWordId, nextWordId + count - 1)
  /\ response' = [Respond("import", 0, 0, 201) EXCEPT !.importedWordsCount = count]
  /\ UNCHANGED <<clock, handlers, reviewLog>>
  /\ UNCHANGED notApi

\* --------------------------------------------------- PUT /api/words/:id
\* An update that starts the word's statistics over.
PutWordResettingStats(userId, wordId) ==
  /\ EventLoopIdle
  /\ response = NoResponse
  /\ IF WordBelongsToUser(wordId, userId)
       THEN /\ word_stats' = InsertOrReplaceStats(word_stats, wordId)
            /\ response' = Respond("put", userId, wordId, 200)
       ELSE /\ response' = Respond("put", userId, wordId, 404)
            /\ UNCHANGED word_stats
  /\ UNCHANGED <<words, nextWordId, clock, handlers, reviewLog>>
  /\ UNCHANGED notApi

\* UPDATE words SET french = ?, ... WHERE id = ? AND user_id = ?, then the
\* word_tags of the word: the id and the owner stay, 404 when no row is updated.
PutWord(userId, wordId) ==
  /\ EventLoopIdle
  /\ response = NoResponse
  /\ response' = Respond("put", 0, 0,
                         IF WordBelongsToUser(wordId, userId) THEN 200 ELSE 404)
  /\ UNCHANGED <<words, nextWordId, word_stats, clock, handlers, reviewLog>>
  /\ UNCHANGED notApi

\* ------------------------------------- GET /api/series, GET /api/export
\* The routes that only SELECT (words LEFT JOIN word_stats); of the response only
\* the status is modelled.
ReadRoutes == {"series", "export"}

GetRoute(userId, route) ==
  /\ EventLoopIdle
  /\ response = NoResponse
  /\ response' = Respond(route, 0, 0, 200)
  /\ UNCHANGED <<words, nextWordId, word_stats, clock, handlers, reviewLog>>
  /\ UNCHANGED notApi

\* ------------------------------------------------ the /api middleware
\* A request to a protected route without a session user: the middleware answers
\* 401 and does not call next().
NotAuthenticated ==
  /\ EventLoopIdle
  /\ response = NoResponse
  /\ response' = Respond("protected", 0, 0, 401)
  /\ UNCHANGED <<words, nextWordId, word_stats, clock, handlers, reviewLog>>
  /\ UNCHANGED notApi

\* ------------------------------------------------ DELETE /api/words/:id
\* DELETE FROM words WHERE id = ? (no user_id condition)
DeleteWordUnscoped(userId, wordId) ==
  /\ EventLoopIdle
  /\ response = NoResponse
  /\ IF WordExists(wordId, userId)
       THEN /\ words' = {w \in words : w.id # wordId}
            /\ word_stats' = CascadeDelete(word_stats, wordId)
            /\ reviewLog' = [reviewLog EXCEPT ![wordId] = NoLog]
            /\ response' = Respond("delete", userId, wordId, 204)
       ELSE /\ response' = Respond("delete", 0, 0, 404)
            /\ UNCHANGED <<words, word_stats, reviewLog>>
  /\ UNCHANGED <<nextWordId, clock, handlers>>
  /\ UNCHANGED notApi

DeleteWord(userId, wordId) ==
  /\ EventLoopIdle
  /\ response = NoResponse
  /\ IF WordBelongsToUser(wordId, userId)
       THEN /\ words' = {w \in words : w.id # wordId}
            /\ word_stats' = CascadeDelete(word_stats, wordId)
            /\ reviewLog' = [reviewLog EXCEPT ![wordId] = NoLog]
            /\ response' = Respond("delete", userId, wordId, 204)
       ELSE /\ response' = Respond("delete", 0, 0, 404)
            /\ UNCHANGED <<words, word_stats, reviewLog>>
  /\ UNCHANGED <<nextWordId, clock, handlers>>
  /\ UNCHANGED notApi

\* ------------------------------------------------- request validation
\* A JSON value of a request body: <<"number", h>> is the number h / 2 (so that 3
\* is 1.5), <<"string", h>> a string.
JsonInteger(n) == <<"number", 2 * n>>

\* Bodies the schema has to reject: wordId 0, -1, 1.5 and the string "1", and a
\* result that is none of the three.
BadReviews ==
  {[wordId |-> JsonInteger(0), result |-> "success"],
   [wordId |-> JsonInteger(-1), result |-> "fail"],
   [wordId |-> <<"number", 3>>, result |-> "partial"],
   [wordId |-> <<"string", 2>>, result |-> "success"],
   [wordId |-> JsonInteger(1), result |-> "skip"]}

\* The bodies of POST /api/reviews and the elements of body.reviews of the bulk
\* route that the model sends: every word id with every outcome, and the bad ones.
RawReviews ==
  [wordId : {JsonInteger(n) : n \in WordIds}, result : ReviewResult] \cup BadReviews

\* z.number().int() without .positive()
ReviewSchemaAnyInteger(body) ==
  /\ body.wordId[1] = "number"
  /\ body.wordId[2] % 2 = 0
  /\ body.result \in {"success", "partial", "fail"}

\* z.object({ wordId: z.number().int().positive(),
\*            result: z.enum(["success", "partial", "fail"]) }): does parse() return?
ReviewSchema(body) ==
  /\ body.wordId[1] = "number"
  /\ body.wordId[2] % 2 = 0
  /\ body.wordId[2] > 0
  /\ body.result \in {"success", "partial", "fail"}

\* What parse() returns for a value the schema accepts.
Parsed(body) == [wordId |-> body.wordId[2] \div 2, result |-> body.result]

\* parse() throws a ZodError; the error middleware answers 400.
InvalidRequest(h, op, userId) ==
  /\ EventLoopIdle
  /\ FreeHandler(h)
  /\ response' = Respond(op, 0, 0, 400)
  /\ UNCHANGED <<words, nextWordId, word_stats, clock, handlers, reviewLog>>
  /\ UNCHANGED notApi

\* ---------------------------------------------------- POST /api/reviews
\* The route without the ownership check: bodySchema.parse, then the ensure step.
PostReviews_EnsureUnscoped(h, userId, wordId, result) ==
  /\ EventLoopIdle
  /\ FreeHandler(h)
  /\ clock < MaxReviews
  /\ word_stats' = InsertOrIgnoreStats(word_stats, wordId)
  /\ handlers' = [handlers EXCEPT ![h] =
       [Idle EXCEPT !.pc = "review_load", !.userId = userId,
                    !.wordId = wordId, !.result = result]]
  /\ response' = NoResponse
  /\ UNCHANGED <<words, nextWordId, clock, reviewLog>>
  /\ UNCHANGED notApi

\* bodySchema.parse, the ownership check, then the ensure step (INSERT OR IGNORE).
PostReviews_Ensure(h, userId, wordId, result) ==
  /\ EventLoopIdle
  /\ FreeHandler(h)
  /\ clock < MaxReviews
  /\ IF ~WordBelongsToUser(wordId, userId)
       THEN /\ response' = Respond("review", userId, wordId, 404)
            /\ UNCHANGED <<word_stats, handlers>>
       ELSE /\ word_stats' = InsertOrIgnoreStats(word_stats, wordId)
            /\ handlers' = [handlers EXCEPT ![h] =
                 [Idle EXCEPT !.pc = "review_load", !.userId = userId,
                              !.wordId = wordId, !.result = result]]
            /\ response' = NoResponse
  /\ UNCHANGED <<words, nextWordId, clock, reviewLog>>
  /\ UNCHANGED notApi

\* A request with a body the schema accepts: bodySchema.parse(req.body), then the
\* rest of the handler.
PostReviews(h, userId, body) ==
  /\ EventLoopIdle
  /\ FreeHandler(h)
  /\ ReviewSchema(body)
  /\ PostReviews_Ensure(h, userId, Parsed(body).wordId, Parsed(body).result)

\* A request with a body the schema rejects.
PostReviews_Invalid(h, userId) ==
  /\ InvalidRequest(h, "review", userId)
  /\ \E body \in RawReviews : ~ReviewSchema(body)

\* The load step: SELECT the row; "Stats not found" when there is none.
PostReviews_Load(h) ==
  /\ handlers[h].pc = "review_load"
  /\ LET existingStats == SelectStats(word_stats, handlers[h].wordId) IN
       IF existingStats = NULL
         THEN /\ response' = Respond("review", handlers[h].userId, handlers[h].wordId, 404)
              /\ Finish(h)
         ELSE /\ handlers' = [handlers EXCEPT ![h].pc = "review_store",
                                              ![h].existingStats = existingStats]
              /\ UNCHANGED response
  /\ UNCHANGED <<words, nextWordId, word_stats, clock, reviewLog>>
  /\ UNCHANGED notApi

\* The compute and store steps: applyReviewToStats, UPDATE, res.json({ stats }).
PostReviews_Store(h) ==
  /\ handlers[h].pc = "review_store"
  /\ LET ctx == handlers[h]
         updatedStats == applyReviewToStats(ctx.existingStats[1], ctx.result, clock + 1)
     IN /\ word_stats' = UpdateStats(word_stats, updatedStats)
        /\ clock' = clock + 1
        /\ response' = [Respond("review", ctx.userId, ctx.wordId, 200) EXCEPT
                          !.stats = Some(updatedStats)]
        /\ reviewLog' = [reviewLog EXCEPT ![ctx.wordId][ctx.result] = @ + 1]
  /\ Finish(h)
  /\ UNCHANGED <<words, nextWordId>>
  /\ UNCHANGED notApi

\* ----------------------------------------------- POST /api/reviews/bulk
\* The elements body.reviews may hold.
ReviewPairs == [wordId : WordIds, result : ReviewResult]

\* The loop outside a transaction: the writes before the failure stay.
KeepWrites(snapshot, current) == current

\* database.transaction(fn): when fn throws, the transaction is rolled back to the
\* state at BEGIN and the error is rethrown.
Rollback(snapshot, current) == snapshot

\* A batch that begins while another handler is between two of its statements.
PostReviewsBulk_BeginInterleaved(h, userId) ==
  /\ FreeHandler(h)
  /\ \A other \in Handlers : handlers[other].pc # "bulk_loop"
  /\ clock < MaxReviews
  /\ handlers' = [handlers EXCEPT ![h] =
       [Idle EXCEPT !.pc = "bulk_loop", !.userId = userId, !.snapshot = word_stats,
                    !.nowIso = clock, !.log = [w \in WordIds |-> NoLog]]]
  /\ response' = NoResponse
  /\ UNCHANGED <<words, nextWordId, word_stats, clock, reviewLog>>
  /\ UNCHANGED notApi

\* bodySchema.parse, the prepared statements, appliedCount = 0, nowIso, BEGIN.
PostReviewsBulk_Begin(h, userId) ==
  /\ EventLoopIdle
  /\ FreeHandler(h)
  /\ clock < MaxReviews
  /\ handlers' = [handlers EXCEPT ![h] =
       [Idle EXCEPT !.pc = "bulk_loop", !.userId = userId, !.snapshot = word_stats,
                    !.nowIso = clock, !.log = [w \in WordIds |-> NoLog]]]
  /\ response' = NoResponse
  /\ UNCHANGED <<words, nextWordId, word_stats, clock, reviewLog>>
  /\ UNCHANGED notApi

\* The word exists and is the user's.
Owns(userId, wordId) == [id |-> wordId, user_id |-> userId] \in words

\* History of a batch after one more pair: logged when the word is the acting
\* user's, counted as foreign otherwise.
ReadPair(ctx, review) ==
  IF Owns(ctx.userId, review.wordId)
    THEN [ctx EXCEPT !.i = @ + 1, !.log[review.wordId][review.result] = @ + 1]
    ELSE [ctx EXCEPT !.i = @ + 1, !.foreign = @ + 1]

\* A baseline that leaves the row as it was read.
BulkBaselineKeepingNull(existingStats, nowIso) == existingStats

\* { ...existingStats, last_reviewed_at: existingStats.last_reviewed_at ?? nowIso }
BulkBaseline(existingStats, nowIso) ==
  [existingStats EXCEPT !.last_reviewed_at = IF @ = NULL THEN Some(nowIso) ELSE @]

\* A loop that takes the row of each pair as it was at BEGIN.
PostReviewsBulk_LoopFromSnapshot(h, review) ==
  /\ handlers[h].pc = "bulk_loop"
  /\ handlers[h].i < MaxBulk
  /\ clock < MaxReviews
  /\ LET ctx == handlers[h]
         read == ReadPair(ctx, review)
         upserted == InsertOrIgnoreStats(word_stats, review.wordId)
         existingStats == SelectStats(InsertOrIgnoreStats(ctx.snapshot, review.wordId),
                                      review.wordId)
     IN IF ~WordBelongsToUser(review.wordId, ctx.userId)
          THEN /\ handlers' = [handlers EXCEPT ![h] = read]
               /\ UNCHANGED <<word_stats, clock>>
          ELSE LET baseline == BulkBaseline(existingStats[1], ctx.nowIso)
                   updatedStats == applyReviewToStats(baseline, review.result, clock + 1)
               IN /\ word_stats' = UpdateStats(upserted, updatedStats)
                  /\ clock' = clock + 1
                  /\ handlers' = [handlers EXCEPT ![h] =
                                    [read EXCEPT !.appliedCount = @ + 1]]
  /\ UNCHANGED <<words, nextWordId, response, reviewLog>>
  /\ UNCHANGED notApi

\* One iteration of: for (const review of body.reviews) { ... }.  The request body is
\* read one element per iteration: the model draws each element when the loop reads
\* it, and the list ends where PostReviewsBulk_Commit fires.
PostReviewsBulk_Loop(h, review) ==
  /\ handlers[h].pc = "bulk_loop"
  /\ handlers[h].i < MaxBulk
  /\ clock < MaxReviews
  /\ LET ctx == handlers[h]
         read == ReadPair(ctx, review)
         upserted == InsertOrIgnoreStats(word_stats, review.wordId)
         existingStats == SelectStats(upserted, review.wordId)
     IN IF ~WordBelongsToUser(review.wordId, ctx.userId)
          THEN /\ handlers' = [handlers EXCEPT ![h] = read]
               /\ UNCHANGED <<word_stats, clock>>
          ELSE IF existingStats = NULL
            THEN /\ handlers' = [handlers EXCEPT ![h] = read]
                 /\ word_stats' = upserted
                 /\ UNCHANGED clock
            ELSE LET baseline == BulkBaseline(existingStats[1], ctx.nowIso)
                     updatedStats == applyReviewToStats(baseline, review.result, clock + 1)
                 IN /\ word_stats' = UpdateStats(upserted, updatedStats)
                    /\ clock' = clock + 1
                    /\ handlers' = [handlers EXCEPT ![h] =
                                      [read EXCEPT !.appliedCount = @ + 1]]
  /\ UNCHANGED <<words, nextWordId, response, reviewLog>>
  /\ UNCHANGED notApi

\* The loop reads the next element of the parsed list.
PostReviewsBulk_Iterate(h, element) ==
  /\ handlers[h].pc = "bulk_loop"
  /\ ReviewSchema(element)
  /\ PostReviewsBulk_Loop(h, Parsed(element))

\* A request whose body.reviews holds an element the schema rejects:
\* bodySchema.parse(req.body) throws before any statement is prepared.
PostReviewsBulk_Invalid(h, userId) ==
  /\ InvalidRequest(h, "bulk", userId)
  /\ \E element \in RawReviews : ~ReviewSchema(element)

\* A statement of the transaction throws (storage failure): ROLLBACK, the error
\* reaches the error middleware, which answers 500.
PostReviewsBulk_StorageFailure(h) ==
  /\ handlers[h].pc = "bulk_loop"
  /\ word_stats' = Rollback(handlers[h].snapshot, word_stats)
  /\ response' = Respond("bulk", handlers[h].userId, 0, 500)
  /\ Finish(h)
  /\ UNCHANGED <<words, nextWordId, clock, reviewLog>>
  /\ UNCHANGED notApi

\* The log with the events of a committed batch added.
MergeLog(log, batch) ==
  [w \in WordIds |->
     [success |-> log[w].success + batch[w].success,
      partial |-> log[w].partial + batch[w].partial,
      fail |-> log[w].fail + batch[w].fail]]

\* A response that counts the pairs of the list: json({ appliedCount: reviews.length })
PostReviewsBulk_CommitCountingAll(h) ==
  /\ handlers[h].pc = "bulk_loop"
  /\ response' = [Respond("bulk", handlers[h].userId, 0, 201) EXCEPT
                    !.appliedCount = handlers[h].i,
                    !.reviews = handlers[h].i, !.foreign = handlers[h].foreign]
  /\ reviewLog' = MergeLog(reviewLog, handlers[h].log)
  /\ Finish(h)
  /\ UNCHANGED <<words, nextWordId, word_stats, clock>>
  /\ UNCHANGED notApi

\* The list is exhausted: COMMIT, res.status(201).json({ appliedCount })
PostReviewsBulk_Commit(h) ==
  /\ handlers[h].pc = "bulk_loop"
  /\ response' = [Respond("bulk", handlers[h].userId, 0, 201) EXCEPT
                    !.appliedCount = handlers[h].appliedCount,
                    !.reviews = handlers[h].i, !.foreign = handlers[h].foreign]
  /\ reviewLog' = MergeLog(reviewLog, handlers[h].log)
  /\ Finish(h)
  /\ UNCHANGED <<words, nextWordId, word_stats, clock>>
  /\ UNCHANGED notApi

\* ------------------------------------------- GET /api/words/difficult
\* A column read that lets NULL sort below every value.
CoalesceNullLowest(stats, column, default) ==
  IF stats = NULL THEN -10 ELSE stats[1][column]

COALESCE(stats, column, default) == IF stats = NULL THEN default ELSE stats[1][column]

\* words w LEFT JOIN word_stats s ON s.word_id = w.id: one joined row per stats row
\* of the word, or one with s NULL.
LeftJoinStats(w) ==
  IF \E s \in word_stats : s.word_id = w.id
    THEN {<<w, Some(s)>> : s \in {t \in word_stats : t.word_id = w.id}}
    ELSE {<<w, NULL>>}

Attempts(s) ==
  COALESCE(s, "success_count", 0) + COALESCE(s, "partial_count", 0)
    + COALESCE(s, "fail_count", 0)

\* CAST(fail_count AS REAL) / NULLIF(attempts, 0): NULL when attempts is 0, else the
\* fraction <<fail_count, attempts>>.
FailRate(s) ==
  IF Attempts(s) = 0 THEN NULL ELSE Some(<<COALESCE(s, "fail_count", 0), Attempts(s)>>)

\* rate > ? on a nullable rate: NULL > x is NULL, which WHERE treats as false.
\* Both sides are fractions with positive denominators.
RateGreater(rate, threshold) ==
  /\ rate # NULL
  /\ rate[1][1] * threshold[2] > threshold[1] * rate[1][2]

\* A WHERE clause that joins the two conditions with AND.
WhereDifficultBoth(w, s, userId, params) ==
  /\ w.user_id = userId
  /\ COALESCE(s, "score", 0) <= params.scoreThreshold
  /\ Attempts(s) >= params.minAttempts
  /\ RateGreater(FailRate(s), params.failRateThreshold)

\* A WHERE clause without w.user_id = ?.
WhereDifficultAnyUser(w, s, userId, params) ==
  \/ COALESCE(s, "score", 0) <= params.scoreThreshold
  \/ /\ Attempts(s) >= params.minAttempts
     /\ RateGreater(FailRate(s), params.failRateThreshold)

\* The WHERE clause of the query.
WhereDifficult(w, s, userId, params) ==
  /\ w.user_id = userId
  /\ \/ COALESCE(s, "score", 0) <= params.scoreThreshold
     \/ /\ Attempts(s) >= params.minAttempts
        /\ RateGreater(FailRate(s), params.failRateThreshold)

\* The SELECT list.
DifficultRow(w, s) ==
  [id |-> w.id,
   success_count |-> COALESCE(s, "success_count", 0),
   partial_count |-> COALESCE(s, "partial_count", 0),
   fail_count |-> COALESCE(s, "fail_count", 0),
   score |-> COALESCE(s, "score", 0),
   last_reviewed_at |-> IF s = NULL THEN NULL ELSE s[1].last_reviewed_at]

\* ORDER BY COALESCE(s.score, 0) ASC, w.id ASC
OrderedBeforeIdAscending(a, b) ==
  a.score < b.score \/ (a.score = b.score /\ a.id <= b.id)

\* ORDER BY COALESCE(s.score, 0) ASC, w.id DESC
OrderedBefore(a, b) == a.score < b.score \/ (a.score = b.score /\ a.id >= b.id)

RECURSIVE OrderBy(_)
OrderBy(rows) ==
  IF rows = {} THEN <<>>
  ELSE LET first == CHOOSE r \in rows : \A o \in rows : OrderedBefore(r, o)
       IN <<first>> \o OrderBy(rows \ {first})

listDifficultWords(userId, params) ==
  OrderBy({DifficultRow(j[1], j[2]) :
             j \in {k \in UNION {LeftJoinStats(w) : w \in words} :
                      WhereDifficult(k[1], k[2], userId, params)}})

DefaultParams ==
  [scoreThreshold |-> DefaultScoreThreshold, minAttempts |-> DefaultMinAttempts,
   failRateThreshold |-> DefaultFailRateThreshold]

\* The query strings the model sends: the defaults; a score threshold every
\* unreviewed word meets; a minimum of attempts that two reviews reach.
QueryParams ==
  {DefaultParams,
   [DefaultParams EXCEPT !.scoreThreshold = 0],
   [DefaultParams EXCEPT !.minAttempts = 2]}

GetWordsDifficult(userId, params) ==
  /\ EventLoopIdle
  /\ response = NoResponse
  /\ response' = [Respond("difficult", userId, 0, 200) EXCEPT
                    !.params = Some(params),
                    !.words = listDifficultWords(userId, params)]
  /\ UNCHANGED <<words, nextWordId, word_stats, clock, handlers, reviewLog>>
  /\ UNCHANGED notApi

\* res.json(...) / res.send() has written the response and the handler has returned:
\* the exchange is over.
EndExchange ==
  /\ response # NoResponse
  /\ response' = NoResponse
  /\ UNCHANGED <<words, nextWordId, word_stats, clock, handlers, reviewLog>>
  /\ UNCHANGED notApi

Next ==
  \/ \E u \in Users : PostWords(u)
  \/ \E u \in Users, count \in 0..MaxWords : PostImport(u, count)
  \/ \E u \in Users, w \in WordIds : PutWord(u, w)
  \/ \E u \in Users, route \in ReadRoutes : GetRoute(u, route)
  \/ \E u \in Users, w \in WordIds : DeleteWord(u, w)
  \/ \E h \in Handlers, u \in Users, body \in RawReviews : PostReviews(h, u, body)
  \/ \E h \in Handlers, u \in Users : PostReviews_Invalid(h, u)
  \/ \E h \in Handlers : PostReviews_Load(h)
  \/ \E h \in Handlers : PostReviews_Store(h)
  \/ \E h \in Handlers, u \in Users : PostReviewsBulk_Begin(h, u)
  \/ \E h \in Handlers, u \in Users : PostReviewsBulk_Invalid(h, u)
  \/ \E h \in Handlers, element \in RawReviews : PostReviewsBulk_Iterate(h, element)
  \/ \E h \in Handlers : PostReviewsBulk_StorageFailure(h)
  \/ \E h \in Handlers : PostReviewsBulk_Commit(h)
  \/ \E u \in Users, p \in QueryParams : GetWordsDifficult(u, p)
  \/ NotAuthenticated
  \/ EndExchange

Spec == Init /\ [][Next]_vars

\* ------------------------------ web: TrainPage, one review per word
\* TrainPage.tsx (first component): the state hooks once load() has set the words.
\* pending is the call of handleReview that awaits submitReview: its argument and
\* the currentIndex of the render it was created in.  settled is history: how the
\* promise of the last call of handleReview ended.
LoadedTrainPage(length) ==
  [mounted |-> TRUE, length |-> length, currentIndex |-> 0, isRevealed |-> FALSE,
   isSubmitting |-> FALSE, isSessionFinished |-> FALSE,
   sessionReviewedCount |-> 0, sessionSuccessCount |-> 0, sessionPartialCount |-> 0,
   sessionFailCount |-> 0, sessionScoreDelta |-> 0, pending |-> NULL,
   settled |-> "none"]

computeSessionScoreDelta(reviewResult) ==
  IF reviewResult = "success" THEN 2
  ELSE IF reviewResult = "partial" THEN 1
  ELSE -2

\* currentWord: words[currentIndex] ?? null
HasCurrentWord == train.length > 0 /\ train.currentIndex < train.length

\* The review and skip buttons of a page: rendered for the current word once it is
\* revealed, disabled={isSubmitting}.
ReviewButtonsEnabled(page) ==
  /\ page.mounted
  /\ page.length > 0 /\ page.currentIndex < page.length
  /\ page.isRevealed
  /\ ~page.isSubmitting

\* onClick={() => setIsRevealed(true)}
TrainReveal ==
  /\ train.mounted
  /\ HasCurrentWord
  /\ ~train.isRevealed
  /\ train' = [train EXCEPT !.isRevealed = TRUE]
  /\ UNCHANGED notTrain

\* handleReview up to its await: the buttons are rendered when isRevealed and are
\* disabled while isSubmitting.
TrainHandleReview(reviewResult) ==
  /\ ReviewButtonsEnabled(train)
  /\ train.sessionReviewedCount < MaxReviews
  /\ train' = [train EXCEPT
                 !.isSubmitting = TRUE,
                 !.pending = Some([reviewResult |-> reviewResult,
                                   currentIndex |-> train.currentIndex])]
  /\ UNCHANGED notTrain

\* advanceToNextWord(isReviewed) of the render whose currentIndex is given.
AdvanceToNextWord(page, currentIndex, isReviewed) ==
  IF page.length = 0 THEN page
  ELSE IF currentIndex + 1 >= page.length
    THEN [page EXCEPT !.isSessionFinished = IF isReviewed THEN TRUE ELSE @]
    ELSE [page EXCEPT !.currentIndex = currentIndex + 1, !.isRevealed = FALSE]

\* A handleReview without its finally block.
TrainReviewRejectedWithoutFinally ==
  /\ train.mounted
  /\ train.pending # NULL
  /\ train' = [train EXCEPT !.pending = NULL, !.settled = "rejected"]
  /\ UNCHANGED notTrain

\* submitReview rejects (the response is not ok, or fetch fails): the rest of the
\* try block is skipped and finally runs.
TrainReviewRejected ==
  /\ train.mounted
  /\ train.pending # NULL
  /\ train' = [train EXCEPT !.isSubmitting = FALSE, !.pending = NULL,
                              !.settled = "rejected"]
  /\ UNCHANGED notTrain

\* submitReview resolves: the counters, advanceToNextWord(true), finally.
TrainReviewResolved ==
  /\ train.mounted
  /\ train.pending # NULL
  /\ LET call == train.pending[1]
         counted == [train EXCEPT
           !.sessionReviewedCount = @ + 1,
           !.sessionScoreDelta = @ + computeSessionScoreDelta(call.reviewResult),
           !.sessionSuccessCount = @ + (IF call.reviewResult = "success" THEN 1 ELSE 0),
           !.sessionPartialCount = @ + (IF call.reviewResult = "partial" THEN 1 ELSE 0),
           !.sessionFailCount = @ + (IF call.reviewResult = "fail" THEN 1 ELSE 0)]
     IN train' = [AdvanceToNextWord(counted, call.currentIndex, TRUE) EXCEPT
                    !.isSubmitting = FALSE, !.pending = NULL, !.settled = "resolved"]
  /\ UNCHANGED notTrain

\* "Passer": onClick={() => advanceToNextWord(false)}
TrainSkip ==
  /\ ReviewButtonsEnabled(train)
  /\ train' = AdvanceToNextWord(train, train.currentIndex, FALSE)
  /\ UNCHANGED notTrain

\* "Recommencer", rendered when isSessionFinished: restartSession().  The shuffle
\* keeps the length of the list.
TrainRestart ==
  /\ train.mounted
  /\ train.isSessionFinished
  /\ train' = [train EXCEPT
                 !.currentIndex = 0, !.isRevealed = FALSE, !.isSessionFinished = FALSE,
                 !.sessionReviewedCount = 0, !.sessionSuccessCount = 0,
                 !.sessionPartialCount = 0, !.sessionFailCount = 0,
                 !.sessionScoreDelta = 0]
  /\ UNCHANGED notTrain

\* The page has loaded a list of words.
TrainInit ==
  /\ ApiInit
  /\ kanji = NoKanji
  /\ bulkBody = <<>>
  /\ series = NoSeriesPage
  /\ userActions = 0
  /\ auth = NoRegistration
  /\ \E length \in 0..MaxWords : train = LoadedTrainPage(length)

TrainNext ==
  \/ TrainReveal
  \/ \E reviewResult \in ReviewResult : TrainHandleReview(reviewResult)
  \/ TrainReviewResolved
  \/ TrainReviewRejected
  \/ TrainSkip
  \/ TrainRestart

SpecTrain == TrainInit /\ [][TrainNext]_vars

\* ------------------------------- a client that sends one list of reviews
\* The client posts words and sends the list bulkBody to POST /api/reviews/bulk, as
\* often as it likes: the loop reads the list's elements in order and the
\* transaction commits after the last.
BatchIterate(h) ==
  /\ handlers[h].pc = "bulk_loop"
  /\ handlers[h].i < Len(bulkBody)
  /\ PostReviewsBulk_Loop(h, bulkBody[handlers[h].i + 1])

BatchCommit(h) ==
  /\ handlers[h].pc = "bulk_loop"
  /\ handlers[h].i = Len(bulkBody)
  /\ PostReviewsBulk_Commit(h)

BatchInit ==
  /\ ApiInit
  /\ train = NoTrainPage
  /\ kanji = NoKanji
  /\ series = NoSeriesPage
  /\ userActions = 0
  /\ auth = NoRegistration
  /\ \E n \in 0..MaxBulk : bulkBody \in [1..n -> ReviewPairs]

BatchNext ==
  \/ \E u \in Users : PostWords(u)
  \/ \E h \in Handlers, u \in Users : PostReviewsBulk_Begin(h, u)
  \/ \E h \in Handlers : BatchIterate(h)
  \/ \E h \in Handlers : PostReviewsBulk_StorageFailure(h)
  \/ \E h \in Handlers : BatchCommit(h)
  \/ EndExchange

SpecBatch == BatchInit /\ [][BatchNext]_vars

\* POST /api/reviews on a table, for a word of the user: the ensure, load,
\* compute and store steps.
SingleReview(table, userId, review, nowIso) ==
  IF ~WordBelongsToUser(review.wordId, userId) THEN table
  ELSE LET ensured == InsertOrIgnoreStats(table, review.wordId)
           existingStats == SelectStats(ensured, review.wordId)
       IN UpdateStats(ensured, applyReviewToStats(existingStats[1], review.result, nowIso))

\* The pairs of list sent one at a time, in the order order gives.
RECURSIVE SingleReviewsInOrder(_, _, _, _, _)
SingleReviewsInOrder(table, userId, list, order, n) ==
  IF n = 0 THEN table
  ELSE SingleReview(SingleReviewsInOrder(table, userId, list, order, n - 1),
                    userId, list[order[n]], n)

\* The orders in which n pairs can be sent.
Orders(n) == {f \in [1..n -> 1..n] : \A i, j \in 1..n : f[i] = f[j] => i = j}

\* The counters and the score of every record.
CountersAndScore(table) ==
  {[word_id |-> row.word_id, success_count |-> row.success_count,
    partial_count |-> row.partial_count, fail_count |-> row.fail_count,
    score |-> row.score] : row \in table}

\* --------------------------- web: TrainPage, a series rated at the end
\* The component's state hooks once load() has set the words of the tag: words
\* is the shuffled list (of word ids), currentIndex counts from 0, timerFor is the
\* index of the word the pending timeout of timerHandleRef was set for.  pending
\* is the body of the bulk request in flight; sent and succeeded are history of
\* the session: the calls of submitBulkReviews and those that resolved.
SessionModes == {"manual", "timer"}

\* Number(searchParams.get("seconds") ?? 5): the default and a value without timer.
TimerSeconds == {0, 5}

\* shuffleWords(words): any order of the same words.
shuffleWords(list) ==
  {[i \in 1..Len(list) |-> list[order[i]]] : order \in Orders(Len(list))}

\* A timer effect that only sets the timeout for the first word.
TimerEffectFirstWordOnly(page) ==
  [page EXCEPT !.timerFor =
     IF /\ Len(page.words) > 0
        /\ ~page.isSessionFinished
        /\ page.sessionMode = "timer"
        /\ page.timerSeconds > 0
        /\ page.currentIndex = 0
       THEN Some(page.currentIndex)
       ELSE NULL]

\* The timer effect, run after a render that changed one of its dependencies:
\* clearTimeout of the handle, then setTimeout unless one of the guards returns.
TimerEffect(page) ==
  [page EXCEPT !.timerFor =
     IF /\ Len(page.words) > 0
        /\ ~page.isSessionFinished
        /\ page.sessionMode = "timer"
        /\ page.timerSeconds > 0
       THEN Some(page.currentIndex)
       ELSE NULL]

LoadedSeriesPage(shuffledWords, sessionMode, timerSeconds) ==
  TimerEffect(
    [mounted |-> TRUE, words |-> shuffledWords, sessionMode |-> sessionMode,
     timerSeconds |-> timerSeconds, currentIndex |-> 0, isRevealed |-> FALSE,
     isSubmitting |-> FALSE, isSessionFinished |-> FALSE,
     ratingsByWordId |-> [w \in 1..Len(shuffledWords) |-> NULL],
     isRatingsSubmitted |-> FALSE, timerFor |-> NULL, pending |-> NULL,
     sent |-> 0, succeeded |-> 0])

\* currentWord && !isSessionFinished: the card with its buttons is rendered.
SeriesCardShown(page) ==
  page.mounted /\ Len(page.words) > 0 /\ ~page.isSessionFinished

\* isSessionFinished && words && words.length > 0: the recap is rendered.
SeriesRecapShown(page) ==
  page.mounted /\ Len(page.words) > 0 /\ page.isSessionFinished

\* An advance that does not look at the length of the list.
advanceToNextWordUnbounded(page) ==
  [page EXCEPT !.currentIndex = @ + 1, !.isRevealed = FALSE]

\* advanceToNextWord(): the updater of setCurrentIndex.
advanceToNextWord(page) ==
  IF Len(page.words) = 0 THEN page
  ELSE IF page.currentIndex + 1 >= Len(page.words)
    THEN [page EXCEPT !.isSessionFinished = TRUE]
    ELSE [page EXCEPT !.currentIndex = @ + 1, !.isRevealed = FALSE]

\* goToPreviousWord(), and the ArrowLeft branch of onKeyDown.
goToPreviousWord(page) ==
  [page EXCEPT !.currentIndex = IF @ - 1 > 0 THEN @ - 1 ELSE 0, !.isRevealed = FALSE]

\* "Afficher la réponse"
SeriesReveal ==
  /\ SeriesCardShown(series)
  /\ ~series.isRevealed
  /\ series' = [series EXCEPT !.isRevealed = TRUE]
  /\ UNCHANGED notSeries

\* "Suivant" (disabled while submitting), or ArrowRight / Enter in manual mode.
SeriesAdvance(source) ==
  /\ SeriesCardShown(series)
  /\ IF source = "button" THEN ~series.isSubmitting ELSE series.sessionMode = "manual"
  /\ series' = TimerEffect(advanceToNextWord(series))
  /\ UNCHANGED notSeries

\* "Précédent" (disabled on the first word and while submitting), or ArrowLeft
\* in manual mode.
SeriesPrevious(source) ==
  /\ SeriesCardShown(series)
  /\ IF source = "button"
       THEN series.currentIndex # 0 /\ ~series.isSubmitting
       ELSE series.sessionMode = "manual"
  /\ series' = TimerEffect(goToPreviousWord(series))
  /\ UNCHANGED notSeries

\* The timeout of the timer effect fires: advanceToNextWord().
SeriesTimerExpiry ==
  /\ series.mounted
  /\ series.timerFor # NULL
  /\ series' = TimerEffect(advanceToNextWord([series EXCEPT !.timerFor = NULL]))
  /\ UNCHANGED notSeries

\* setRating(wordId, rating): a rating button of the recap.
SeriesSetRating(wordId, rating) ==
  /\ SeriesRecapShown(series)
  /\ wordId \in 1..Len(series.words)
  /\ series' = [series EXCEPT !.ratingsByWordId[wordId] = Some(rating)]
  /\ UNCHANGED notSeries

\* An isAllRated that is content with one rating.
isSomeRated(page) ==
  /\ Len(page.words) > 0
  /\ \E i \in 1..Len(page.words) : page.ratingsByWordId[page.words[i]] # NULL

isAllRated(page) ==
  /\ Len(page.words) > 0
  /\ \A i \in 1..Len(page.words) : page.ratingsByWordId[page.words[i]] # NULL

\* words.map((word) => ({ wordId: word.id, result: ratingsByWordId[word.id] }))
ReviewsOf(page) ==
  [i \in 1..Len(page.words) |->
     [wordId |-> page.words[i], result |-> page.ratingsByWordId[page.words[i]]]]

\* "Enregistrer la série" (disabled unless all rated, while submitting and once
\* submitted): submitRatings() up to its await.
SeriesSubmitRatings ==
  /\ SeriesRecapShown(series)
  /\ isAllRated(series) /\ ~series.isSubmitting /\ ~series.isRatingsSubmitted
  /\ series.sent < MaxSubmissions
  /\ series' = [series EXCEPT !.isSubmitting = TRUE,
                               !.pending = Some(ReviewsOf(series)),
                               !.sent = @ + 1]
  /\ UNCHANGED notSeries

\* submitBulkReviews resolves: setIsRatingsSubmitted(true), then finally.
SeriesSubmitResolved ==
  /\ series.mounted
  /\ series.pending # NULL
  /\ series' = [series EXCEPT !.isRatingsSubmitted = TRUE, !.isSubmitting = FALSE,
                               !.pending = NULL, !.succeeded = @ + 1]
  /\ UNCHANGED notSeries

\* submitBulkReviews rejects (the response is not ok, or fetch fails): finally.
SeriesSubmitRejected ==
  /\ series.mounted
  /\ series.pending # NULL
  /\ series' = [series EXCEPT !.isSubmitting = FALSE, !.pending = NULL]
  /\ UNCHANGED notSeries

\* "Recommencer" (disabled while submitting): restartSession().
SeriesRestart ==
  /\ SeriesRecapShown(series)
  /\ ~series.isSubmitting
  /\ \E shuffled \in shuffleWords(series.words) :
       series' = TimerEffect(
         [series EXCEPT !.words = shuffled, !.currentIndex = 0, !.isRevealed = FALSE,
                        !.isSessionFinished = FALSE,
                        !.ratingsByWordId = [w \in 1..Len(series.words) |-> NULL],
                        !.isRatingsSubmitted = FALSE, !.sent = 0, !.succeeded = 0])
  /\ UNCHANGED notSeries

\* load() has set the shuffled words of the tag.
SeriesInit ==
  /\ ApiInit
  /\ train = NoTrainPage
  /\ kanji = NoKanji
  /\ bulkBody = <<>>
  /\ userActions = 0
  /\ auth = NoRegistration
  /\ \E length \in 0..MaxWords, sessionMode \in SessionModes, seconds \in TimerSeconds :
       \E shuffledWords \in shuffleWords([i \in 1..length |-> i]) :
         series = LoadedSeriesPage(shuffledWords, sessionMode, seconds)

SeriesNext ==
  \/ SeriesReveal /\ UNCHANGED userActions
  \/ (\E source \in {"button", "key"} : SeriesAdvance(source)) /\ UNCHANGED userActions
  \/ (\E source \in {"button", "key"} : SeriesPrevious(source)) /\ UNCHANGED userActions
  \/ (\E wordId \in WordIds, rating \in ReviewResult : SeriesSetRating(wordId, rating))
       /\ UNCHANGED userActions
  \/ SeriesSubmitRatings /\ UNCHANGED userActions
  \/ SeriesSubmitResolved /\ UNCHANGED userActions
  \/ SeriesSubmitRejected /\ UNCHANGED userActions
  \/ SeriesRestart /\ UNCHANGED userActions
  \/ SeriesTimerExpiry /\ UNCHANGED userActions

SpecSeries == SeriesInit /\ [][SeriesNext]_vars

\* A user who does a bounded number of things (the answers of the server to
\* their submissions counted with them) and then leaves the page alone; the
\* browser runs a timeout that is due.
UserActs ==
  /\ userActions < MaxUserActions
  /\ userActions' = userActions + 1

SeriesTimerNext ==
  \/ SeriesReveal /\ UserActs
  \/ (\E source \in {"button", "key"} : SeriesAdvance(source)) /\ UserActs
  \/ (\E source \in {"button", "key"} : SeriesPrevious(source)) /\ UserActs
  \/ (\E wordId \in WordIds, rating \in ReviewResult : SeriesSetRating(wordId, rating))
       /\ UserActs
  \/ SeriesSubmitRatings /\ UserActs
  \/ SeriesSubmitResolved /\ UserActs
  \/ SeriesSubmitRejected /\ UserActs
  \/ SeriesRestart /\ UserActs
  \/ SeriesTimerExpiry /\ UNCHANGED userActions

SpecSeriesTimer ==
  /\ SeriesInit
  /\ [][SeriesTimerNext]_vars
  /\ WF_vars(SeriesTimerExpiry /\ UNCHANGED userActions)

\* ------------------------------------------- POST /api/auth/register
\* A username of a request body: text with or without capitals, with or without
\* spaces around it.  "" padded is a string of spaces.
RawUsernames ==
  [text : {"amy", "bob"}, capitals : BOOLEAN, padding : {0, 3}]
    \cup [text : {""}, capitals : {FALSE}, padding : {0, 3}]

StringLength(raw) == (IF raw.text = "" THEN 0 ELSE 3) + raw.padding

\* z.string().min(3).max(48) on body.username
UsernameSchema(raw) == StringLength(raw) >= 3 /\ StringLength(raw) <= 48

\* body.username.trim().toLowerCase()
NormalizeUsername(raw) == [raw EXCEPT !.capitals = FALSE, !.padding = 0].text

\* SELECT id FROM users WHERE username = ?
ExistingUser(users, username) == \E u \in users : u.username = username

\* UPDATE words SET user_id = ? WHERE user_id IS NULL (0 stands for NULL)
ClaimOrphans(table, userId) ==
  {[w EXCEPT !.user_id = IF @ = 0 THEN userId ELSE @] : w \in table}

RegisterAnswer(username, status, body, inserted) ==
  <<[username |-> username, status |-> status, body |-> body,
     taken |-> ExistingUser(auth.users, username), inserted |-> inserted]>>

\* INSERT INTO users (username, password_hash) VALUES (?, ?), username UNIQUE: the
\* statement throws when the username is a row already.
InsertUser(users, id, username) ==
  IF ExistingUser(users, username)
    THEN [ok |-> FALSE, users |-> users]
    ELSE [ok |-> TRUE, users |-> users \cup {[id |-> id, username |-> username]}]

\* The handler up to its await: parse, normalise, the existence check, the count.
Register_Begin(h, raw) ==
  /\ auth.registering[h].pc = "idle"
  /\ \A g \in Handlers : g < h => auth.registering[g].pc # "idle"
  /\ LET username == NormalizeUsername(raw) IN
       IF ~UsernameSchema(raw)
         THEN auth' = [auth EXCEPT
                !.answer = RegisterAnswer(username, 400, "Invalid request", FALSE)]
       ELSE IF username = ""
         THEN auth' = [auth EXCEPT
                !.answer = RegisterAnswer(username, 400, "Username is required", FALSE)]
       ELSE IF ExistingUser(auth.users, username)
         THEN auth' = [auth EXCEPT
                !.answer = RegisterAnswer(username, 409, "Username already exists", FALSE)]
       ELSE auth' = [auth EXCEPT
              !.registering[h] = [pc |-> "hashing", username |-> username,
                                  isFirstUser |-> auth.users = {}]]
  /\ UNCHANGED words
  /\ UNCHANGED notAuth

\* hashPassword has resolved: the INSERT, the orphans for the first user, the
\* session.  A throwing INSERT rejects the handler's promise; wrapAsync passes the
\* error to the error middleware, which answers 500.
Register_Hashed(h, sessionSaved) ==
  /\ auth.registering[h].pc = "hashing"
  /\ LET ctx == auth.registering[h]
         insertResult == InsertUser(auth.users, auth.nextUserId, ctx.username)
     IN IF ~insertResult.ok
          THEN /\ auth' = [auth EXCEPT
                     !.registering[h] = NotRegistering,
                     !.answer = RegisterAnswer(ctx.username, 500, "Internal server error",
                                               FALSE)]
               /\ UNCHANGED words
          ELSE /\ auth' = [auth EXCEPT
                     !.users = insertResult.users,
                     !.nextUserId = @ + 1,
                     !.registering[h] = NotRegistering,
                     !.answer = IF sessionSaved
                                  THEN RegisterAnswer(ctx.username, 201, "user", TRUE)
                                  ELSE RegisterAnswer(ctx.username, 500,
                                                      "Failed to create session", TRUE)]
               /\ words' = IF ctx.isFirstUser
                             THEN ClaimOrphans(words, auth.nextUserId)
                             ELSE words
  /\ UNCHANGED notAuth

RegisterInit ==
  /\ ApiInit
  /\ train = NoTrainPage
  /\ kanji = NoKanji
  /\ bulkBody = <<>>
  /\ series = NoSeriesPage
  /\ userActions = 0
  /\ auth = EmptyUsersTable

RegisterNext ==
  \/ \E h \in Handlers, raw \in RawUsernames : Register_Begin(h, raw)
  \/ \E h \in Handlers, sessionSaved \in BOOLEAN : Register_Hashed(h, sessionSaved)

SpecRegister == RegisterInit /\ [][RegisterNext]_vars

\* ------------------------------------------------ kanji SVG download
\* kanji.db: the kanji of getAllUniqueKanjiFromDb / extractAllKanjiFromDatabase;
\* kanji.files: the kanji k whose file u<hex of k>.svg is in kanjiDir;
\* kanji.run: the run in progress; kanji.last: history, the last completed run.
\* In a run, requested is history: the kanji downloadFile was called for; failed:
\* the kanji downloadKanjiSvg returned false for; existing: the files at its start.
Kanji == 1..MaxKanji

\* A check that never finds the file.
SvgNeverExists(files, k) == FALSE

\* fs.existsSync(path.join(kanjiDir, `u${unicodeHex}.svg`))
SvgExists(files, k) == k \in files

\* findMissingKanjiSvgs(kanjiSet)
findMissingKanjiSvgs(files, kanjiSet) == {k \in kanjiSet : ~SvgExists(files, k)}

NewRun(variant, todo, inflight) ==
  [variant |-> variant, todo |-> todo, inflight |-> inflight, requested |-> inflight,
   failed |-> {}, existing |-> kanji.files]

\* The script (npm run download-kanji-svg): main() up to its loop over the sorted
\* kanji of the database.
KanjiScriptStart ==
  /\ kanji.run = NULL
  /\ kanji.runs < MaxRuns
  /\ kanji' = [kanji EXCEPT !.run = Some(NewRun("script", kanji.db, {}))]
  /\ UNCHANGED notKanji

\* What a call of downloadFile may do.  The script opens the file before the request
\* and unlinks it on a status other than 200 or a request error; the server opens it
\* on a 200 response.  Both reject on a failed request or status; a write that fails
\* after a 200 rejects in the server and, having no error handler, ends the script.
DownloadOutcomes(variant) ==
  IF variant = "script" THEN {"finish", "rejected", "uncaught"}
  ELSE {"finish", "rejected", "write_error"}

\* The files after a call of downloadFile for k.
FilesAfter(files, k, outcome) ==
  IF outcome = "rejected" THEN files ELSE files \cup {k}

\* One iteration of the script's loop: await downloadKanjiSvg(kanji), count, pause.
KanjiScriptStep(outcome) ==
  /\ kanji.run # NULL
  /\ kanji.run[1].variant = "script"
  /\ kanji.run[1].todo # {}
  /\ outcome \in DownloadOutcomes("script")
  /\ LET run == kanji.run[1]
         k == CHOOSE x \in run.todo : \A y \in run.todo : x <= y
     IN IF SvgExists(kanji.files, k)
          THEN /\ outcome = "finish"
               /\ kanji' = [kanji EXCEPT !.run = Some([run EXCEPT !.todo = @ \ {k}])]
          ELSE IF outcome = "uncaught"
            THEN kanji' = [kanji EXCEPT !.files = FilesAfter(@, k, outcome),
                                        !.run = NULL, !.runs = @ + 1]
            ELSE kanji' = [kanji EXCEPT
                   !.files = FilesAfter(@, k, outcome),
                   !.run = Some([run EXCEPT
                              !.todo = @ \ {k},
                              !.requested = @ \cup {k},
                              !.failed = IF outcome = "finish" THEN @ ELSE @ \cup {k}])]
  /\ UNCHANGED notKanji

\* The server's downloadMissingKanjiSvgs up to its await: the missing kanji, and
\* for each of them downloadKanjiSvg up to its await of downloadFile.
KanjiServerStart ==
  /\ kanji.run = NULL
  /\ kanji.runs < MaxRuns
  /\ LET missingKanji == findMissingKanjiSvgs(kanji.files, kanji.db)
         started == {k \in missingKanji : ~SvgExists(kanji.files, k)}
     IN kanji' = [kanji EXCEPT !.run = Some(NewRun("server", {}, started))]
  /\ UNCHANGED notKanji

\* A download of the server's run settles.
KanjiServerSettle(k, outcome) ==
  /\ kanji.run # NULL
  /\ kanji.run[1].variant = "server"
  /\ k \in kanji.run[1].inflight
  /\ outcome \in DownloadOutcomes("server")
  /\ kanji' = [kanji EXCEPT
       !.files = FilesAfter(@, k, outcome),
       !.run = Some([kanji.run[1] EXCEPT
                  !.inflight = @ \ {k},
                  !.failed = IF outcome = "finish" THEN @ ELSE @ \cup {k}])]
  /\ UNCHANGED notKanji

\* The loop, or Promise.allSettled, is over: the run reports its counts.
KanjiRunEnd ==
  /\ kanji.run # NULL
  /\ kanji.run[1].todo = {}
  /\ kanji.run[1].inflight = {}
  /\ kanji' = [kanji EXCEPT !.run = NULL, !.last = kanji.run, !.runs = @ + 1]
  /\ UNCHANGED notKanji

\* Words with some kanji, some of which have their file.
KanjiInit ==
  /\ ApiInit
  /\ train = NoTrainPage
  /\ bulkBody = <<>>
  /\ series = NoSeriesPage
  /\ userActions = 0
  /\ auth = NoRegistration
  /\ \E db \in SUBSET Kanji, files \in SUBSET Kanji :
       kanji = KanjiDirectory(db, files)

KanjiNext ==
  \/ KanjiScriptStart
  \/ \E outcome \in {"finish", "rejected", "uncaught"} : KanjiScriptStep(outcome)
  \/ KanjiServerStart
  \/ \E k \in Kanji, outcome \in {"finish", "rejected", "write_error"} :
       KanjiServerSettle(k, outcome)
  \/ KanjiRunEnd

SpecKanji == KanjiInit /\ [][KanjiNext]_vars

\* ------------------------------------------------------------ properties
\* What a StatsRecord lookup finds in a table: the counters, score and timestamp of
\* the word's row, or nothing.
RowsOf(table, wordId) == {row \in table : row.word_id = wordId}

StatsOf(table, wordId) ==
  IF RowsOf(table, wordId) = {} THEN DefaultStatsRow(wordId)
  ELSE CHOOSE row \in RowsOf(table, wordId) : TRUE

\* The score after the logged events, from 0.
ScoreOfLog(log) == 2 * log.success + log.partial - 2 * log.fail

\* C1: a single success review of a word by its owner stores successCount + 1 and
\* score + 2 over what is stored when it completes, whatever requests were accepted
\* in between; so when the N events accepted for the word so far are all successes,
\* the record holds successCount = N and score = 2N.
C1_NoLostUpdate ==
  [][\A h \in Handlers :
       (/\ PostReviews_Store(h)
        /\ handlers[h].result = "success"
        /\ Owns(handlers[h].userId, handlers[h].wordId)) =>
         LET w == handlers[h].wordId
             before == StatsOf(word_stats, w)
             after == StatsOf(word_stats', w)
         IN /\ Cardinality(RowsOf(word_stats', w)) = 1
            /\ after.success_count = before.success_count + 1
            /\ after.score = before.score + 2
            /\ after.success_count = reviewLog'[w].success
            /\ after.score = ScoreOfLog(reviewLog'[w])]_vars

C1_Witness ==
  /\ response.op = "review"
  /\ response.status = 200
  /\ reviewLog[response.wordId] = [success |-> 2, partial |-> 0, fail |-> 0]
  /\ response.stats[1].success_count = 2
  /\ response.stats[1].score = 4
  /\ Owns(response.userId, response.wordId)

\* C2: when a statement of a bulk transaction fails, the word_stats table is again
\* what it was when the batch began (every record's counters, score and timestamp,
\* and no record the batch created), no event of the batch is logged as applied,
\* and the answer is an error.
C2_BulkAllOrNothing ==
  [][\A h \in Handlers :
       PostReviewsBulk_StorageFailure(h) =>
         /\ word_stats' = handlers[h].snapshot
         /\ \A w \in WordIds :
              /\ StatsOf(word_stats', w) = StatsOf(handlers[h].snapshot, w)
              /\ RowsOf(handlers[h].snapshot, w) = {} => RowsOf(word_stats', w) = {}
         /\ reviewLog' = reviewLog
         /\ response'.status = 500]_vars

\* A batch on a word that had no record has applied an event (the clock moved to its
\* last value, which only an open batch reaches) and failed: the record it created
\* is gone.
C2_Witness ==
  /\ response.op = "bulk"
  /\ response.status = 500
  /\ clock = MaxReviews
  /\ nextWordId = 2
  /\ Cardinality(words) = 1
  /\ word_stats = {}

\* C3: a committed bulk submission of n pairs of which exactly one names a word
\* that is not the acting user's answers 201 with appliedCount = n - 1, has applied
\* the other pairs to the user's records, and leaves every record of a word that is
\* not the user's as it was, an absent one absent.
C3_BulkSkipsForeignPair ==
  [][\A h \in Handlers :
       (PostReviewsBulk_Commit(h) /\ handlers[h].foreign = 1) =>
         LET ctx == handlers[h] IN
           /\ response'.status = 201
           /\ response'.appliedCount = ctx.i - 1
           /\ \A w \in WordIds :
                IF Owns(ctx.userId, w)
                  THEN LET before == StatsOf(ctx.snapshot, w)
                           after == StatsOf(word_stats', w)
                       IN /\ after.success_count = before.success_count + ctx.log[w].success
                          /\ after.partial_count = before.partial_count + ctx.log[w].partial
                          /\ after.fail_count = before.fail_count + ctx.log[w].fail
                          /\ after.score = before.score + ScoreOfLog(ctx.log[w])
                  ELSE RowsOf(word_stats', w) = RowsOf(ctx.snapshot, w)]_vars

C3_Witness ==
  /\ response.op = "bulk"
  /\ response.status = 201
  /\ response.reviews = 2
  /\ response.foreign = 1
  /\ response.appliedCount = 1
  /\ \A w \in WordIds : \E x \in words : x.id = w
  /\ \E x \in words :
       /\ x.user_id # response.userId
       /\ StatsOf(word_stats, x.id).fail_count > 0

\* The delta the scoring contract gives each outcome.
Delta(outcome) ==
  CASE outcome = "success" -> 2
    [] outcome = "partial" -> 1
    [] outcome = "fail" -> -2

\* C4: for every stored record r and outcome o, applyReviewToStats(r, o) has the
\* score r.score + delta(o), delta being +2, +1, -2, below zero and above as well.
C4_ScoreDeltaExact ==
  \A r \in word_stats, o \in ReviewResult :
    applyReviewToStats(r, o, clock + 1).score = r.score + Delta(o)

C4_Witness ==
  /\ response.op = "review"
  /\ response.status = 200
  /\ response.stats[1].score = -6
  /\ response.stats[1] \in word_stats

\* C5: for every stored record r and outcome o, applyReviewToStats(r, o) has the
\* counter of o one higher than r's, the other two counters equal to r's, and r's
\* word_id.
C5_OneCounterIncrement ==
  \A r \in word_stats, o \in ReviewResult :
    LET u == applyReviewToStats(r, o, clock + 1) IN
      /\ u.word_id = r.word_id
      /\ u.success_count = r.success_count + (IF o = "success" THEN 1 ELSE 0)
      /\ u.partial_count = r.partial_count + (IF o = "partial" THEN 1 ELSE 0)
      /\ u.fail_count = r.fail_count + (IF o = "fail" THEN 1 ELSE 0)

C5_Witness ==
  /\ response.op = "review"
  /\ response.status = 200
  /\ response.stats[1].partial_count = 1
  /\ response.stats[1].success_count = 1
  /\ response.stats[1].fail_count = 1

\* C6: a single review of a word that is not the acting user's (another user's, or
\* no word) is answered 404 and changes no table: no record is created and none is
\* modified, and nothing is logged as applied.
C6_ForeignReviewNotFound ==
  [][\A h \in Handlers :
       (FreeHandler(h) /\ (response'.op = "review" \/ handlers'[h].pc # "idle")) =>
         \A u \in Users, w \in WordIds :
           ~Owns(u, w) =>
             \A o \in ReviewResult :
               PostReviews_Ensure(h, u, w, o) =>
                 /\ response'.op = "review"
                 /\ response'.status = 404
                 /\ word_stats' = word_stats
                 /\ words' = words
                 /\ reviewLog' = reviewLog
                 /\ handlers'[h].pc = "idle"]_vars

C6_Witness ==
  /\ response.op = "review"
  /\ response.status = 404
  /\ \E x \in words :
       /\ x.id = response.wordId
       /\ x.user_id # response.userId
       /\ StatsOf(word_stats, x.id).success_count > 0

\* C7: there is at most one record per word; the ensure step on any word leaves
\* exactly one record for it, the same whether it runs once or twice, and the one
\* that was there if there was one; and a review that has run the ensure step on a
\* word with nothing logged finds the all-zero record.
C7_EnsureIdempotent ==
  /\ \A r1, r2 \in word_stats : r1.word_id = r2.word_id => r1 = r2
  /\ \A w \in WordIds :
       LET once == InsertOrIgnoreStats(word_stats, w)
           twice == InsertOrIgnoreStats(once, w)
       IN /\ twice = once
          /\ Cardinality(RowsOf(twice, w)) = 1
          /\ RowsOf(word_stats, w) # {} => once = word_stats
          /\ RowsOf(word_stats, w) = {} => RowsOf(twice, w) = {DefaultStatsRow(w)}
  /\ \A h \in Handlers :
       handlers[h].pc = "review_load" =>
         /\ Cardinality(RowsOf(word_stats, handlers[h].wordId)) = 1
         /\ reviewLog[handlers[h].wordId] = NoLog =>
              RowsOf(word_stats, handlers[h].wordId) = {DefaultStatsRow(handlers[h].wordId)}

\* The ensure step has run a second time for word 2 (POST /api/words ran it first),
\* which no review has touched, while the other word has a reviewed record.
C7_Witness ==
  /\ \E h \in Handlers : handlers[h].pc = "review_load" /\ handlers[h].wordId = 2
  /\ reviewLog[2] = NoLog
  /\ RowsOf(word_stats, 2) = {DefaultStatsRow(2)}
  /\ StatsOf(word_stats, 1).last_reviewed_at # NULL

\* The ids in a returned list.
ReturnedIds(list) == {list[i].id : i \in 1..Len(list)}

\* The classification rule on a word's record (zeros when it has none).
IsDifficult(wordId, params) ==
  LET r == StatsOf(word_stats, wordId)
      attempts == r.success_count + r.partial_count + r.fail_count
  IN \/ r.score <= params.scoreThreshold
     \/ /\ attempts >= params.minAttempts
        /\ attempts > 0
        /\ r.fail_count * params.failRateThreshold[2] > params.failRateThreshold[1] * attempts

\* C8: the list answered by the difficult-words query holds a word exactly when it
\* is the acting user's and score <= scoreThreshold or (attempts >= minAttempts and
\* failCount / attempts > failRateThreshold), each such word once.
C8_DifficultIffScoreOrFailRate ==
  response.op = "difficult" =>
    /\ ReturnedIds(response.words) =
         {w \in WordIds : Owns(response.userId, w) /\ IsDifficult(w, response.params[1])}
    /\ Cardinality(ReturnedIds(response.words)) = Len(response.words)

\* One answer holds a word on its fail rate alone (score above the threshold) and
\* leaves out another word of the user.
C8_Witness ==
  /\ response.op = "difficult"
  /\ \E i \in 1..Len(response.words) :
       response.words[i].score > response.params[1].scoreThreshold
  /\ \E w \in WordIds :
       /\ Owns(response.userId, w)
       /\ w \notin ReturnedIds(response.words)
       /\ StatsOf(word_stats, w).last_reviewed_at # NULL

\* C9: the list answered by the difficult-words query is ascending in score, and of
\* two entries with the same score the one with the greater id comes first.
C9_SortedByScoreThenIdDesc ==
  response.op = "difficult" =>
    \A i, j \in 1..Len(response.words) :
      i < j =>
        \/ response.words[i].score < response.words[j].score
        \/ /\ response.words[i].score = response.words[j].score
           /\ response.words[i].id > response.words[j].id

C9_Witness ==
  /\ response.op = "difficult"
  /\ Len(response.words) = 2
  /\ response.words[1].score = response.words[2].score
  /\ response.words[1].score < 0
  /\ response.words[1].id > response.words[2].id

\* A word no review has touched: it has no record, or the all-zero one.
Untouched(wordId) == RowsOf(word_stats, wordId) \subseteq {DefaultStatsRow(wordId)}

\* C10: a word of the acting user without a record, or with an untouched one, is
\* not in the list answered under the default parameters, and where it is listed
\* (score threshold 0 or more) it is listed with score 0 and no attempts.
C10_UntouchedNeverDifficultByDefault ==
  response.op = "difficult" =>
    \A w \in WordIds :
      (Owns(response.userId, w) /\ Untouched(w)) =>
        /\ response.params[1] = DefaultParams => w \notin ReturnedIds(response.words)
        /\ \A i \in 1..Len(response.words) :
             response.words[i].id = w =>
               /\ response.words[i].score = 0
               /\ response.words[i].success_count = 0
               /\ response.words[i].partial_count = 0
               /\ response.words[i].fail_count = 0
        /\ response.params[1].scoreThreshold >= 0 => w \in ReturnedIds(response.words)

\* Under the defaults a reviewed word of the user is listed and a word of the user
\* that has no record is not.
C10_Witness ==
  /\ response.op = "difficult"
  /\ response.params[1] = DefaultParams
  /\ Len(response.words) = 1
  /\ \E w \in WordIds : Owns(response.userId, w) /\ RowsOf(word_stats, w) = {}

\* The attempts a record counts, and those of a whole table.
AttemptsOf(r) == r.success_count + r.partial_count + r.fail_count

TotalAttempts(table) ==
  LET RECURSIVE Sum(_)
      Sum(ws) == IF ws = {} THEN 0
                 ELSE LET w == CHOOSE x \in ws : TRUE
                      IN AttemptsOf(StatsOf(table, w)) + Sum(ws \ {w})
  IN Sum(WordIds)

\* The counter of a record that counts an outcome.
CounterOf(r, outcome) ==
  CASE outcome = "success" -> r.success_count
    [] outcome = "partial" -> r.partial_count
    [] outcome = "fail" -> r.fail_count

\* The events a log entry counts.
EventsOf(log) == log.success + log.partial + log.fail

\* C11: every pair of a bulk list on a word of the acting user is applied to the
\* record as the pairs before it left it, an earlier pair on the same word included:
\* its outcome's counter + 1, score + delta, appliedCount + 1.  So a committed batch
\* with the word k times has added k to its attempts and the k deltas to its score.
C11_BulkDuplicatesEachApplied ==
  [][\A h \in Handlers :
       handlers[h].pc = "bulk_loop" =>
       /\ \A review \in ReviewPairs :
            (/\ handlers'[h].pc = "bulk_loop"
             /\ Owns(handlers[h].userId, review.wordId)
             /\ PostReviewsBulk_Loop(h, review)) =>
              LET before == StatsOf(word_stats, review.wordId)
                  after == StatsOf(word_stats', review.wordId)
              IN /\ AttemptsOf(after) = AttemptsOf(before) + 1
                 /\ CounterOf(after, review.result) = CounterOf(before, review.result) + 1
                 /\ after.score = before.score + Delta(review.result)
                 /\ handlers'[h].appliedCount = handlers[h].appliedCount + 1
       /\ PostReviewsBulk_Commit(h) =>
            \A w \in WordIds :
              Owns(handlers[h].userId, w) =>
                /\ AttemptsOf(StatsOf(word_stats', w)) =
                     AttemptsOf(StatsOf(handlers[h].snapshot, w)) + EventsOf(handlers[h].log[w])
                /\ StatsOf(word_stats', w).score =
                     StatsOf(handlers[h].snapshot, w).score + ScoreOfLog(handlers[h].log[w])]_vars

\* A committed batch of two applied pairs, the only two events ever applied, has
\* left one record with a success and a fail: the batch held that word twice.
C11_Witness ==
  /\ response.op = "bulk"
  /\ response.status = 201
  /\ response.appliedCount = 2
  /\ clock = 2
  /\ \E r \in word_stats :
       /\ r.success_count = 1
       /\ r.fail_count = 1
       /\ r.partial_count = 0
       /\ r.score = 0

\* C12: the appliedCount a committed bulk submission answers is the number of its
\* pairs on words of the acting user, and is the number of attempts the batch added
\* to the records, all of them taken together.
C12_AppliedCountIsOwnedPairs ==
  [][\A h \in Handlers :
       (handlers[h].pc = "bulk_loop" /\ PostReviewsBulk_Commit(h)) =>
         /\ response'.status = 201
         /\ response'.appliedCount = handlers[h].i - handlers[h].foreign
         /\ response'.appliedCount =
              TotalAttempts(word_stats') - TotalAttempts(handlers[h].snapshot)]_vars

\* A batch of two pairs on two words of the user, together with a batch answered
\* before: appliedCount 2 of the 3 attempts the records count.
C12_Witness ==
  /\ response.op = "bulk"
  /\ response.status = 201
  /\ response.reviews = 2
  /\ response.foreign = 0
  /\ response.appliedCount = 2
  /\ \A w \in WordIds : Owns(response.userId, w) /\ AttemptsOf(StatsOf(word_stats, w)) >= 1
  /\ TotalAttempts(word_stats) = 3

\* A submission the contract accepts: a positive integer wordId and one of the
\* three outcomes.
ValidSubmission(pair) ==
  /\ \E n \in 1..(MaxWords + 1) : pair.wordId = <<"number", n + n>>
  /\ pair.result \in ReviewResult

\* The submissions the model sends that the contract does not accept.
InvalidSubmissions == {pair \in RawReviews : ~ValidSubmission(pair)}

\* C13: no handler and no response other than 400 comes of a single review whose
\* wordId or outcome is invalid, and the bulk loop never reads an invalid pair; a
\* request the schema rejects, single or bulk, is answered 400 before any statement
\* runs, so that no record is created or changed, no event is logged and no handler
\* is left running.
C13_ValidationNoPartialEffect ==
  [][/\ \A h \in Handlers :
          /\ handlers[h].pc = "bulk_loop" =>
               \A pair \in InvalidSubmissions : ~PostReviewsBulk_Iterate(h, pair)
          /\ (FreeHandler(h) /\ (handlers'[h].pc # "idle" \/ response'.op = "review")) =>
               \A pair \in InvalidSubmissions, u \in Users : ~PostReviews(h, u, pair)
     /\ (response.op = "none" /\ response'.op \in {"review", "bulk"}) =>
          \A h \in Handlers, u \in Users :
            (PostReviews_Invalid(h, u) \/ PostReviewsBulk_Invalid(h, u)) =>
              /\ response'.status = 400
              /\ UNCHANGED <<words, word_stats, reviewLog, handlers, clock>>]_vars

\* A bulk request with an invalid pair has been answered 400 while records with
\* reviews exist.
C13_Witness ==
  /\ response.op = "bulk"
  /\ response.status = 400
  /\ \E r \in word_stats : AttemptsOf(r) = 2
  /\ \E w \in words : RowsOf(word_stats, w.id) = {}

\* C14 as stated: a word that POST /api/words or POST /api/import has just created
\* has no record.
C14_CreatedWordHasNoRecord ==
  /\ (response.op = "words" /\ response.status = 201) =>
       RowsOf(word_stats, response.wordId) = {}
  /\ (response.op = "import" /\ response.status = 201) =>
       \A id \in (nextWordId - response.importedWordsCount)..(nextWordId - 1) :
         RowsOf(word_stats, id) = {}

\* C14, amended: a word has its record, all counters and score zero and
\* lastReviewedAt absent, from the request that creates it (POST /api/words) or
\* imports it (POST /api/import); a review creates the record, with these values,
\* only for a word that was stored without one, and then applies to it.
C14_RecordCreatedWithWord ==
  /\ (response.op = "words" /\ response.status = 201) =>
       RowsOf(word_stats, response.wordId) = {DefaultStatsRow(response.wordId)}
  /\ (response.op = "import" /\ response.status = 201) =>
       \A id \in (nextWordId - response.importedWordsCount)..(nextWordId - 1) :
         RowsOf(word_stats, id) = {DefaultStatsRow(id)}
  /\ \A h \in Handlers :
       (handlers[h].pc = "review_store" /\ reviewLog[handlers[h].wordId] = NoLog) =>
         handlers[h].existingStats = Some(DefaultStatsRow(handlers[h].wordId))

\* An import has created a word with its all-zero record while another word, stored
\* without a record, still has none.
C14_Witness ==
  /\ response.op = "import"
  /\ response.status = 201
  /\ response.importedWordsCount = 1
  /\ RowsOf(word_stats, nextWordId - 1) = {DefaultStatsRow(nextWordId - 1)}
  /\ \E w \in words : RowsOf(word_stats, w.id) = {}

\* The record of a word is there before and after the step, and is not the same.
RecordChanged(wordId) ==
  /\ RowsOf(word_stats, wordId) # {}
  /\ RowsOf(word_stats', wordId) # {}
  /\ RowsOf(word_stats', wordId) # RowsOf(word_stats, wordId)

\* C15: the fields of an existing record change only in a step of a review
\* submission: the store of a single review of that word or the application of a
\* bulk pair on it, which each add one attempt to that record and change no other,
\* or the rollback of a failed batch, which restores them.  Creating, updating and
\* importing words, the listing routes and the difficult-words query change none.
C15_OnlyReviewsChangeRecords ==
  [][\A w \in WordIds :
       RecordChanged(w) =>
         \/ /\ \E h \in Handlers : PostReviews_Store(h) /\ handlers[h].wordId = w
            /\ AttemptsOf(StatsOf(word_stats', w)) = AttemptsOf(StatsOf(word_stats, w)) + 1
            /\ EventsOf(reviewLog'[w]) = EventsOf(reviewLog[w]) + 1
            /\ \A v \in WordIds \ {w} : RowsOf(word_stats', v) = RowsOf(word_stats, v)
         \/ /\ \E h \in Handlers, pair \in ReviewPairs :
                 /\ PostReviewsBulk_Loop(h, pair)
                 /\ pair.wordId = w
                 /\ EventsOf(handlers'[h].log[w]) = EventsOf(handlers[h].log[w]) + 1
            /\ AttemptsOf(StatsOf(word_stats', w)) = AttemptsOf(StatsOf(word_stats, w)) + 1
            /\ \A v \in WordIds \ {w} : RowsOf(word_stats', v) = RowsOf(word_stats, v)
         \/ \E h \in Handlers :
              PostReviewsBulk_StorageFailure(h) /\ word_stats' = handlers[h].snapshot]_vars

\* A word with a reviewed record has been updated, after an import, and the record
\* is as the review left it.
C15_Witness ==
  /\ response.op = "put"
  /\ response.status = 200
  /\ nextWordId > MaxWords
  /\ Cardinality(words) = 1
  /\ \E word \in words, r \in word_stats :
       /\ r.word_id = word.id
       /\ r.success_count = 1
       /\ r.score = 2
       /\ r.last_reviewed_at = Some(1)

\* The committed content of word_stats: inside an open transaction, the table as
\* it was at BEGIN.
Committed ==
  IF \E h \in Handlers : handlers[h].pc = "bulk_loop"
    THEN handlers[CHOOSE h \in Handlers : handlers[h].pc = "bulk_loop"].snapshot
    ELSE word_stats

\* C16: a committed record goes away only in the step that deletes its word (a
\* DELETE answered 204 for that word); after that step the word has no record; and
\* every record of the table references a word of the words table.
C16_RecordGoesOnlyWithItsWord ==
  [][/\ \A w \in WordIds :
          (RowsOf(Committed, w) # {} /\ RowsOf(Committed', w) = {}) =>
            /\ \E u \in Users : DeleteWord(u, w)
            /\ response' = Respond("delete", response'.userId, w, 204)
            /\ \A word \in words' : word.id # w
     /\ (response'.op = "delete" /\ response'.status = 204 /\ response' # response) =>
          /\ RowsOf(word_stats', response'.wordId) = {}
          /\ \A word \in words' : word.id # response'.wordId
     /\ \A row \in word_stats' : \E word \in words' : word.id = row.word_id]_vars

\* A reviewed word has been deleted, its record went with it, and the record of
\* another word is still there.
C16_Witness ==
  /\ response.op = "delete"
  /\ response.status = 204
  /\ response.wordId = 1
  /\ clock = 1
  /\ RowsOf(word_stats, 1) = {}
  /\ RowsOf(word_stats, 2) # {}
  /\ \E word \in words : word.id = 2

\* No request is being handled.
NoRequestInFlight == \A h \in Handlers : handlers[h].pc = "idle"

\* C17: whatever single and bulk submissions on a word were made by clients at the
\* same time, once they are all answered the word's record counts every review that
\* was answered as applied: each counter is the number of applied reviews of that
\* outcome and the score is the sum of their deltas.
C17_ConcurrentBulkLosesNothing ==
  NoRequestInFlight =>
    \A word \in words :
      LET stats == StatsOf(word_stats, word.id)
          log == reviewLog[word.id]
      IN IF RowsOf(word_stats, word.id) = {}
           THEN log = NoLog
           ELSE /\ stats.success_count = log.success
                /\ stats.partial_count = log.partial
                /\ stats.fail_count = log.fail
                /\ stats.score = ScoreOfLog(log)

\* A batch with two pairs on a word has been answered after another submission on
\* the same word, and the record holds the three reviews.
C17_Witness ==
  /\ NoRequestInFlight
  /\ response.op = "bulk"
  /\ response.status = 201
  /\ response.appliedCount = 2
  /\ \E r \in word_stats :
       /\ AttemptsOf(r) = 3
       /\ EventsOf(reviewLog[r.word_id]) = 3

\* C18: inside a batch, the row of a never-reviewed word is given the batch's now
\* as lastReviewedAt before the outcome is applied and is otherwise passed as read,
\* like the row of a reviewed word; applying an outcome to it gives the row the
\* single-review route computes from the row as read; and a word that was never
\* reviewed when the batch began holds, after the pairs applied to it, the counters
\* and score of those reviews from zero and a lastReviewedAt that is present.
C18_BulkFirstReviewSamePath ==
  /\ \A h \in Handlers :
       handlers[h].pc = "bulk_loop" =>
         /\ \A row \in word_stats :
              LET baseline == BulkBaseline(row, handlers[h].nowIso)
              IN /\ baseline.last_reviewed_at =
                      (IF row.last_reviewed_at = NULL THEN Some(handlers[h].nowIso)
                       ELSE row.last_reviewed_at)
                 /\ [baseline EXCEPT !.last_reviewed_at = row.last_reviewed_at] = row
                 /\ \A result \in ReviewResult :
                      applyReviewToStats(baseline, result, clock + 1) =
                        applyReviewToStats(row, result, clock + 1)
         /\ \A w \in WordIds :
              (/\ EventsOf(handlers[h].log[w]) > 0
               /\ \A row \in RowsOf(handlers[h].snapshot, w) : AttemptsOf(row) = 0) =>
                 \E row \in RowsOf(word_stats, w) :
                   /\ row.success_count = handlers[h].log[w].success
                   /\ row.partial_count = handlers[h].log[w].partial
                   /\ row.fail_count = handlers[h].log[w].fail
                   /\ row.score = ScoreOfLog(handlers[h].log[w])
                   /\ row.last_reviewed_at # NULL
  /\ (response.op = "bulk" /\ response.status = 201) =>
       \A row \in word_stats : AttemptsOf(row) > 0 => row.last_reviewed_at # NULL

\* A committed batch has applied the first review of a word.
C18_Witness ==
  /\ response.op = "bulk"
  /\ response.status = 201
  /\ response.appliedCount = 1
  /\ clock = 1
  /\ \E row \in word_stats :
       /\ AttemptsOf(row) = 1
       /\ row.fail_count = 1
       /\ row.score = -2
       /\ row.last_reviewed_at = Some(1)

\* The time a record was last reviewed at; 0, before every review, when absent.
TimeOf(row) == IF row.last_reviewed_at = NULL THEN 0 ELSE row.last_reviewed_at[1]

\* C19: in every record lastReviewedAt is absent exactly when the three counters
\* sum to zero; a step that applies a review to a record sets it to the time of
\* that step, which is later than the one it held; a step that applies none leaves
\* it, unless it rolls a batch back; and over the committed records it never moves
\* backwards.  (Stated of the steps that write the table or begin or end a request:
\* the others leave every record, and the committed content, as it is.)
C19_LastReviewedAtIsLatestReview ==
  [][(word_stats' # word_stats \/ handlers' # handlers) =>
     \A w \in WordIds :
       /\ \A row \in RowsOf(word_stats, w) \cup RowsOf(word_stats', w) :
            (row.last_reviewed_at = NULL) <=> (AttemptsOf(row) = 0)
       /\ \A row \in RowsOf(word_stats', w) :
            LET before == StatsOf(word_stats, w)
            IN IF AttemptsOf(row) > AttemptsOf(before)
                 THEN /\ row.last_reviewed_at = Some(clock')
                      /\ clock' = clock + 1
                      /\ TimeOf(before) < clock'
                 ELSE \/ row = before
                      \/ \E h \in Handlers : PostReviewsBulk_StorageFailure(h)
       /\ \A before \in RowsOf(Committed, w), after \in RowsOf(Committed', w) :
            TimeOf(after) >= TimeOf(before)]_vars

\* A word was reviewed, then another, then the first again: each record holds the
\* time of its own latest review.
C19_Witness ==
  /\ clock = 3
  /\ \E first, second \in word_stats :
       /\ AttemptsOf(first) = 2
       /\ first.last_reviewed_at = Some(3)
       /\ AttemptsOf(second) = 1
       /\ second.last_reviewed_at = Some(2)

\* C20: in every record the score is 2 * successCount + partialCount -
\* 2 * failCount: the sum of the deltas of the reviews its counters count.
C20_ScoreIsSumOfDeltas ==
  \A row \in word_stats :
    row.score = 2 * row.success_count + row.partial_count - 2 * row.fail_count

\* A record that has had a review of each outcome.
C20_Witness ==
  \E row \in word_stats :
    /\ row.success_count = 1
    /\ row.partial_count = 1
    /\ row.fail_count = 1
    /\ row.score = 1

\* The events of an outcome accepted for a word: those answered as applied and
\* those of the pairs the open batch, if there is one, has applied so far.
Accepted(w, outcome) ==
  LET open == {h \in Handlers : handlers[h].pc = "bulk_loop"}
  IN IF open = {}
       THEN CounterOf([success_count |-> reviewLog[w].success,
                       partial_count |-> reviewLog[w].partial,
                       fail_count |-> reviewLog[w].fail], outcome)
       ELSE LET log == handlers[CHOOSE h \in open : TRUE].log[w]
            IN CounterOf([success_count |-> reviewLog[w].success + log.success,
                          partial_count |-> reviewLog[w].partial + log.partial,
                          fail_count |-> reviewLog[w].fail + log.fail], outcome)

\* C21: in every state each counter of a record is the number (so, not negative) of
\* review events of its outcome accepted for the word, single or bulk, and across
\* every step no counter of a committed record is lower than it was.
C21_CountersCountAcceptedReviews ==
  [][/\ \A row \in word_stats', outcome \in ReviewResult :
          /\ CounterOf(row, outcome) >= 0
          /\ CounterOf(row, outcome) = Accepted(row.word_id, outcome)'
     /\ \A w \in WordIds :
          \A before \in RowsOf(Committed, w), after \in RowsOf(Committed', w) :
            \A outcome \in ReviewResult :
              CounterOf(after, outcome) >= CounterOf(before, outcome)]_vars

\* A record counts a fail and then a success, while another record counts one
\* partial.
C21_Witness ==
  /\ clock = 3
  /\ NoRequestInFlight
  /\ \E first, second \in word_stats :
       /\ first.fail_count = 1
       /\ first.success_count = 1
       /\ first.last_reviewed_at = Some(3)
       /\ second.partial_count = 1
       /\ reviewLog[first.word_id] = [success |-> 1, partial |-> 0, fail |-> 1]

\* C22: the step in which a single-review submission of the training page fails
\* leaves the current word, the finished flag and the five session counters as they
\* are and sets isSubmitting to false; while the submission is awaited the review
\* and skip buttons are disabled, and after the failure the buttons of the word
\* that is shown revealed are enabled again.
C22_FailedReviewBlocksTheAction ==
  [][/\ TrainReviewRejected =>
          /\ train'.currentIndex = train.currentIndex
          /\ train'.isSessionFinished = train.isSessionFinished
          /\ train'.sessionReviewedCount = train.sessionReviewedCount
          /\ train'.sessionSuccessCount = train.sessionSuccessCount
          /\ train'.sessionPartialCount = train.sessionPartialCount
          /\ train'.sessionFailCount = train.sessionFailCount
          /\ train'.sessionScoreDelta = train.sessionScoreDelta
          /\ train'.isRevealed = train.isRevealed
          /\ ~train'.isSubmitting
          /\ train.isRevealed => ReviewButtonsEnabled(train')
     /\ train.isSubmitting =>
          /\ train.pending # NULL
          /\ ~TrainSkip
          /\ \A reviewResult \in ReviewResult : ~TrainHandleReview(reviewResult)]_vars

\* A submission has failed on the second word after the first was reviewed: the
\* page is still on the second word, revealed, not submitting, one review counted.
C22_Witness ==
  /\ train.mounted
  /\ train.currentIndex = 1
  /\ train.isRevealed
  /\ ~train.isSubmitting
  /\ train.settled = "rejected"
  /\ train.sessionReviewedCount = 1
  /\ train.sessionScoreDelta = 2
  /\ ~train.isSessionFinished

\* C23: a run calls downloadFile only for kanji that had no file when it started,
\* and a run that follows a completed run in which no download failed calls it for
\* none: after such a run every kanji of the words has its file.
C23_KanjiDownloadIdempotent ==
  /\ kanji.run # NULL =>
       /\ kanji.run[1].requested \cap kanji.run[1].existing = {}
       /\ kanji.run[1].requested \subseteq kanji.db
       /\ (kanji.last # NULL /\ kanji.last[1].failed = {}) =>
            kanji.run[1].requested = {}
  /\ (kanji.last # NULL /\ kanji.last[1].failed = {} /\ kanji.run = NULL) =>
       kanji.db \subseteq kanji.files

\* A run that downloaded files, none failing, has been followed by a run that has
\* gone through the kanji of the words.
C23_Witness ==
  /\ kanji.last # NULL
  /\ kanji.last[1].failed = {}
  /\ kanji.last[1].requested = Kanji
  /\ kanji.run # NULL
  /\ kanji.run[1].todo = {}
  /\ kanji.run[1].inflight = {}
  /\ kanji.runs = 1

\* The records of the words that are not userId's.
RecordsOfOthers(table, userId) ==
  {row \in table :
     \E w \in words \cup words' : w.id = row.word_id /\ w.user_id # userId}

\* A step of a request made under userId's session.
RequestOf(userId) ==
  \/ PostWords(userId)
  \/ \E count \in 0..MaxWords : PostImport(userId, count)
  \/ \E w \in WordIds : PutWord(userId, w) \/ DeleteWord(userId, w)
  \/ \E h \in Handlers :
       \/ \E body \in RawReviews : PostReviews(h, userId, body)
       \/ PostReviewsBulk_Begin(h, userId)
       \/ /\ handlers[h].userId = userId
          /\ \/ PostReviews_Load(h)
             \/ PostReviews_Store(h)
             \/ \E element \in RawReviews : PostReviewsBulk_Iterate(h, element)
             \/ PostReviewsBulk_StorageFailure(h)
             \/ PostReviewsBulk_Commit(h)

\* C24: a step of a request made under one user's session leaves the records of
\* every other user's words as they were (none changed, created or deleted), and
\* a request without a session user changes no record and no word.
C24_RecordsOfOtherUsersUntouched ==
  [][/\ word_stats' # word_stats =>
          \A u \in Users :
            RequestOf(u) => RecordsOfOthers(word_stats', u) = RecordsOfOthers(word_stats, u)
     /\ response'.status = 401 => word_stats' = word_stats /\ words' = words]_vars

\* User 1's bulk request has been applied, with a pair naming a word of user 2,
\* whose record holds two reviews.
C24_Witness ==
  /\ response.op = "bulk"
  /\ response.userId = 1
  /\ response.appliedCount > 0
  /\ response.foreign > 0
  /\ \E w \in words, row \in word_stats :
       /\ w.user_id = 2
       /\ row.word_id = w.id
       /\ row.success_count + row.partial_count + row.fail_count = 2

\* C25: every word in the answer of GET /api/words/difficult is a word of the
\* session's user, whatever the query parameters.
C25_DifficultWordsAreTheUsersOwn ==
  response.op = "difficult" =>
    \A i \in 1..Len(response.words) :
      \E w \in words : w.id = response.words[i].id /\ w.user_id = response.userId

\* A request with scoreThreshold 0 has returned a word of user 1 while user 2 has
\* a word whose score is 0 or less.
C25_Witness ==
  /\ response.op = "difficult"
  /\ response.userId = 1
  /\ response.params[1].scoreThreshold = 0
  /\ Len(response.words) > 0
  /\ \E w \in words :
       /\ w.user_id = 2
       /\ \A row \in word_stats : row.word_id = w.id => row.score <= 0

\* C26: when a bulk request commits, the counters and the score of every record
\* are those that sending its pairs on the user's words one at a time to the
\* single review route would give, from the table as it was when the request
\* began, in the order of the list and in every other order.
C26_BulkEqualsSingleReviewsInAnyOrder ==
  [][\A h \in Handlers :
       (handlers[h].pc = "bulk_loop" /\ response'.op = "bulk" /\ response'.status = 201) =>
         \A order \in Orders(Len(bulkBody)) :
           CountersAndScore(word_stats') =
             CountersAndScore(SingleReviewsInOrder(handlers[h].snapshot, handlers[h].userId,
                                                   bulkBody, order, Len(bulkBody)))]_vars

\* A list with a success then a fail on the same word has been applied: the
\* word's record counts one of each and its score is 0.
C26_Witness ==
  /\ response.op = "bulk"
  /\ response.status = 201
  /\ response.appliedCount = 2
  /\ Len(bulkBody) = 2
  /\ bulkBody[1].wordId = bulkBody[2].wordId
  /\ bulkBody[1].result = "success"
  /\ bulkBody[2].result = "fail"
  /\ \E row \in word_stats :
       /\ row.word_id = bulkBody[1].wordId
       /\ row.success_count = 1
       /\ row.fail_count = 1
       /\ row.score = 0

\* C27: with a non-empty list, currentIndex stays within the list whatever the
\* user and the timer do; an advance from the last word sets isSessionFinished
\* and leaves currentIndex, and isSessionFinished becomes true in no other step.
C27_IndexStaysInTheList ==
  [][/\ (series'.mounted /\ Len(series'.words) > 0) =>
          (0 <= series'.currentIndex /\ series'.currentIndex < Len(series'.words))
     /\ (SeriesCardShown(series) /\ series.currentIndex = Len(series.words) - 1
           /\ (SeriesTimerExpiry \/ \E source \in {"button", "key"} : SeriesAdvance(source))) =>
          (series'.isSessionFinished /\ series'.currentIndex = series.currentIndex)
     /\ (series.mounted /\ ~series.isSessionFinished /\ series'.isSessionFinished) =>
          /\ SeriesTimerExpiry \/ \E source \in {"button", "key"} : SeriesAdvance(source)
          /\ series.currentIndex = Len(series.words) - 1
          /\ series'.currentIndex = series.currentIndex]_vars

\* A session of two words, shown in the order 2, 1, has finished on its last
\* word with the answer revealed.
C27_Witness ==
  /\ series.mounted
  /\ Len(series.words) = 2
  /\ series.words = <<2, 1>>
  /\ series.isSessionFinished
  /\ series.currentIndex = 1
  /\ series.isRevealed

\* C28: a call of submitBulkReviews is made only when every word of the session
\* has a rating, with exactly one pair per word of the session (its rating), and
\* never while a call is in flight or after one has succeeded: in a session at
\* most one call is in flight and at most one succeeds.  A call that was rejected
\* can be followed by another.
C28_OneSubmissionInFlightOneSuccess ==
  [][series.mounted =>
       /\ series'.sent # series.sent =>
            \/ series'.sent = 0
            \/ /\ ~series.isSubmitting /\ ~series.isRatingsSubmitted
               /\ series.pending = NULL
               /\ series.succeeded = 0
               /\ series'.pending # NULL
               /\ Len(series'.pending[1]) = Len(series.words)
               /\ \A w \in 1..Len(series.words) :
                    /\ series.ratingsByWordId[w] # NULL
                    /\ Cardinality({i \in 1..Len(series'.pending[1]) :
                                      series'.pending[1][i].wordId = w}) = 1
                    /\ \A i \in 1..Len(series'.pending[1]) :
                         series'.pending[1][i].wordId = w =>
                           series'.pending[1][i].result = series.ratingsByWordId[w]
       /\ series'.pending # series.pending =>
            (series.pending = NULL \/ series'.pending = NULL)
       /\ series'.succeeded <= 1
       /\ series'.isRatingsSubmitted <=> series'.succeeded = 1
       /\ series'.isSubmitting <=> series'.pending # NULL]_vars

\* A session of two words with different ratings whose first call was rejected and
\* whose second succeeded.
C28_Witness ==
  /\ series.mounted
  /\ Len(series.words) = 2
  /\ series.ratingsByWordId[1] = Some("success")
  /\ series.ratingsByWordId[2] = Some("fail")
  /\ series.sent = 2
  /\ series.succeeded = 1
  /\ series.isRatingsSubmitted
  /\ ~series.isSubmitting

\* C28 as stated: in a session at most one call of submitBulkReviews is made.
C28_AtMostOneSubmissionSent ==
  series.mounted => series.sent <= 1

\* The timer effect sets a timeout: timer mode, a positive number of seconds, a
\* list that is not empty.
TimerDriven ==
  /\ series.mounted
  /\ Len(series.words) > 0
  /\ series.sessionMode = "timer"
  /\ series.timerSeconds > 0

\* C29: in timer mode with a positive timerSeconds and a non-empty list, once the
\* user stops acting the session reaches isSessionFinished.  A timeout that fires
\* moves to the next word, or on the last word finishes the session and leaves the
\* index; after every step the only pending timeout is the one set for the
\* current word, and there is none once the session has finished.
C29_TimerFinishesTheSession ==
  /\ TimerDriven ~> series.isSessionFinished
  /\ [][TimerDriven =>
          /\ SeriesTimerExpiry =>
               IF series.currentIndex = Len(series.words) - 1
                 THEN series'.isSessionFinished /\ series'.currentIndex = series.currentIndex
                 ELSE ~series'.isSessionFinished
                        /\ series'.currentIndex = series.currentIndex + 1
          /\ series'.timerFor =
               IF series'.isSessionFinished THEN NULL ELSE Some(series'.currentIndex)]_vars

\* The timer alone has taken a session of two words to its end.
C29_Witness ==
  /\ TimerDriven
  /\ Len(series.words) = 2
  /\ series.currentIndex = 1
  /\ series.isSessionFinished
  /\ series.timerFor = NULL
  /\ userActions = 0

\* C30: a registration whose username is a row of users when the request is
\* answered, and which inserted no row, is answered 409 "Username already exists".
C30_TakenUsernameAnswered409 ==
  (auth.answer # <<>> /\ auth.answer[1].taken /\ ~auth.answer[1].inserted) =>
    (auth.answer[1].status = 409 /\ auth.answer[1].body = "Username already exists")

\* The part of C30 that the UNIQUE column gives: no username is the username of
\* two rows.
OneRowPerUsername ==
  \A a, b \in auth.users : a.username = b.username => a = b

====
